---- MODULE Spec2Model ----
(***************************************************************************)
(* Model of gradescope_report.ts: the report generators that turn wheat,   *)
(* chaff and functionality evaluations into Gradescope test reports.       *)
(*                                                                         *)
(* Strings the program builds with template literals are modelled as       *)
(* records holding the literal's kind and the values spliced into it, so   *)
(* two strings are equal exactly when kind and spliced values are equal.   *)
(* A location string "<dirs>/<file>.arr:<lines>" is the record             *)
(* [dirs, file, lines].                                                    *)
(***************************************************************************)
EXTENDS Integers, Sequences, FiniteSets, TLC

VARIABLES
    pc,                       \* position in the run
    wheat_results,            \* Evaluation[]: the wheat evaluations
    chaff_results,            \* Evaluation[]: the chaff evaluations
    examplar_wheat_report,    \* result of generate_examplar_wheat_report
    detailed_wheat_reports,   \* wheat_results.map(generate_detailed_wheat_report)
    all_invalid_locs,         \* array captured by generate_detailed_chaff_report
    detailed_chaff_reports,   \* chaff_results.map(generate_detailed_chaff_report(wheat_results))
    reports,                  \* generate_score_report: reports
    point_values,             \* generate_score_report: point_values
    score_report,             \* result of generate_score_report
    results,                  \* Evaluation[]: the evaluations read from the input file
    test_results,             \* Evaluation[]: the functionality evaluations
    checked_evaluation,       \* one Evaluation handed to a function
    before,                   \* history: the values of checked_evaluation before each normalization
    failure_report,           \* result of get_invalid_tests_and_blocks(checked_evaluation)
    functionality_reports,    \* result of generate_functionality_report(checked_evaluation)
    examplar_config,          \* ExamplarConfig | null
    point_data,               \* PointData read from the score file
    examplar_reports,         \* main: examplar_reports
    detailed_test_reports,    \* main: test_results.map(generate_functionality_report)
    score_reports,            \* main: score_reports
    gradescope_report         \* main: the report written to the output file

\* State of the runs over lists of wheats and chaffs and of a score run
reportVars == <<wheat_results, chaff_results, examplar_wheat_report,
                detailed_wheat_reports, all_invalid_locs, detailed_chaff_reports,
                reports, point_values, score_report>>

\* State of the calls on one evaluation
evalVars == <<checked_evaluation, before, failure_report, functionality_reports>>

\* Further state of main
mainVars == <<results, test_results, examplar_config, point_data, examplar_reports,
              detailed_test_reports, score_reports, gradescope_report>>

vars == <<pc, reportVars, evalVars, mainVars>>

--------------------------------------------------------------------------
(* Bounds of the explored inputs *)

MaxWheats == 2        \* wheat evaluations in a run
MaxChaffs == 1        \* chaff evaluations in a run
MaxBlocks == 2        \* blocks of an Ok result
MaxTests == 1         \* tests of a block
MaxMaskBlocks == 1    \* blocks of a wheat when a chaff is reconciled
NumNames == 1         \* distinct block names
NumFiles == 1         \* distinct test files in a location
NumLines == 2         \* distinct line ranges in a location
NumDirs == 1          \* distinct directory names in a location
MaxDepth == 2         \* directories in front of a location or a code file
MaxNormalizations == 2 \* calls of normalize_code_names on one evaluation
MaxGradedTests == 3   \* tests of a block of a graded functionality evaluation
MaxEvals == 3         \* evaluations of a partitioned input list
NumBlockNames == 2    \* distinct block names of an evaluation reported on its own
MaxMaskWheats == 1    \* wheats of each of two wheat lists that are compared
MaxRunChaffs == 2     \* chaff evaluations in a run of main
MaxTestSuites == 1    \* functionality evaluations in a run of main
MaxReports == 3       \* reports summed by one score report
NumItems == 2         \* distinct report names in a score run
MaxPoints == 3        \* largest point value of the score file

--------------------------------------------------------------------------
(* Data types *)

ErrKinds == {"Unknown", "Compilation", "OutOfMemory", "Timeout", "Runtime"}

None == [none |-> TRUE]

SeqsUpTo(S, n) == UNION {[1..k -> S] : k \in 0..n}

\* Locations as normalize_code_names leaves them: no directory part.
Locs == [dirs : {<<>>}, file : 1..NumFiles, lines : 1..NumLines]

NoLoc == [dirs |-> <<>>, file |-> 0, lines |-> 0]

Tests == [loc : Locs, passed : BOOLEAN]

TestBlocks(maxTests) ==
    [name : 1..NumNames, loc : Locs, error : BOOLEAN, tests : SeqsUpTo(Tests, maxTests)]

\* Result: exactly one of Ok / Err is populated.
OkResult(blocks) == [tag |-> "Ok", Ok |-> blocks, Err |-> ""]
ErrResult(kind) == [tag |-> "Err", Ok |-> <<>>, Err |-> kind]

Results(maxBlocks, maxTests) ==
    {OkResult(bs) : bs \in SeqsUpTo(TestBlocks(maxTests), maxBlocks)}
        \cup {ErrResult(k) : k \in ErrKinds}

\* A path segment is modelled by the set of the words "wheat" and "chaff" it
\* contains (all that String.prototype.includes reads of it); a file name that
\* has to be told from others is a number.
Evaluation(dir, file, result) ==
    [code |-> [dirs |-> <<dir>>, file |-> file], tests |-> {}, result |-> result]

\* The i-th wheat of a run: wheat/<i>.arr
WheatEvaluations(rs) == [i \in 1..Len(rs) |-> Evaluation({"wheat"}, i, rs[i])]

\* The i-th chaff of a run: chaff/<i>.arr
ChaffEvaluations(rs) == [i \in 1..Len(rs) |-> Evaluation({"chaff"}, i, rs[i])]

--------------------------------------------------------------------------
(* Helpers *)

get_code_file_name(evaluation) == evaluation.code.file

Range(seq) == {seq[i] : i \in 1..Len(seq)}

get_line_number(test_loc) == test_loc.lines

\* [].concat(...seqs)
Concat(seqs) ==
    LET cat[i \in 0..Len(seqs)] == IF i = 0 THEN <<>> ELSE cat[i - 1] \o seqs[i]
    IN cat[Len(seqs)]

Map(seq, F(_)) == [i \in 1..Len(seq) |-> F(seq[i])]

\* Array.prototype.indexOf: first index holding v
IndexOf(seq, v) ==
    CHOOSE i \in 1..Len(seq) : seq[i] = v /\ \A j \in 1..(i - 1) : seq[j] # v

\* messages.filter((v, i) => messages.indexOf(v) === i)
RemoveDuplicates(messages) ==
    LET keep[i \in 0..Len(messages)] ==
            IF i = 0 THEN <<>>
            ELSE IF IndexOf(messages, messages[i]) = i
                 THEN Append(keep[i - 1], messages[i])
                 ELSE keep[i - 1]
    IN keep[Len(messages)]

--------------------------------------------------------------------------
(* Failure detector *)

NoFailures == [tests |-> <<>>, blocks |-> <<>>]

TestFailureReport(success, defined, failures) ==
    [success |-> success, has_failures |-> defined, failures |-> failures]

\* A mutant: block errors are not collected.
get_invalid_tests_and_blocks_no_blocks(wheat) ==
    IF wheat.result.tag = "Err"
    THEN TestFailureReport("Err", FALSE, NoFailures)
    ELSE
        LET blocks == wheat.result.Ok
            failed(block) ==
                Map(SelectSeq(block.tests, LAMBDA t : ~t.passed),
                    LAMBDA t : [test |-> t, block |-> block])
            invalid_tests == Concat(Map(blocks, failed))
        IN IF Len(invalid_tests) = 0
           THEN TestFailureReport("Pass", FALSE, NoFailures)
           ELSE TestFailureReport("Fail", TRUE,
                    [tests |-> invalid_tests, blocks |-> <<>>])

\* A mutant: the tests of an errored block are not looked at.
get_invalid_tests_and_blocks_skip_errored(wheat) ==
    IF wheat.result.tag = "Err"
    THEN TestFailureReport("Err", FALSE, NoFailures)
    ELSE
        LET blocks == wheat.result.Ok
            invalid_blocks == SelectSeq(blocks, LAMBDA b : b.error)
            failed(block) ==
                IF block.error THEN <<>>
                ELSE Map(SelectSeq(block.tests, LAMBDA t : ~t.passed),
                         LAMBDA t : [test |-> t, block |-> block])
            invalid_tests == Concat(Map(blocks, failed))
        IN IF Len(invalid_tests) = 0 /\ Len(invalid_blocks) = 0
           THEN TestFailureReport("Pass", FALSE, NoFailures)
           ELSE TestFailureReport("Fail", TRUE,
                    [tests |-> invalid_tests, blocks |-> invalid_blocks])

\* A mutant: an Ok evaluation with blocks is Fail even when nothing failed.
get_invalid_tests_and_blocks_never_pass(wheat) ==
    IF wheat.result.tag = "Err"
    THEN TestFailureReport("Err", FALSE, NoFailures)
    ELSE
        LET blocks == wheat.result.Ok
            invalid_blocks == SelectSeq(blocks, LAMBDA b : b.error)
            failed(block) ==
                Map(SelectSeq(block.tests, LAMBDA t : ~t.passed),
                    LAMBDA t : [test |-> t, block |-> block])
            invalid_tests == Concat(Map(blocks, failed))
        IN IF Len(blocks) = 0
           THEN TestFailureReport("Pass", FALSE, NoFailures)
           ELSE TestFailureReport("Fail", TRUE,
                    [tests |-> invalid_tests, blocks |-> invalid_blocks])

get_invalid_tests_and_blocks(wheat) ==
    IF wheat.result.tag = "Err"
    THEN TestFailureReport("Err", FALSE, NoFailures)
    ELSE
        LET blocks == wheat.result.Ok
            invalid_blocks == SelectSeq(blocks, LAMBDA b : b.error)
            failed(block) ==
                Map(SelectSeq(block.tests, LAMBDA t : ~t.passed),
                    LAMBDA t : [test |-> t, block |-> block])
            invalid_tests == Concat(Map(blocks, failed))
        IN IF Len(invalid_tests) = 0 /\ Len(invalid_blocks) = 0
           THEN TestFailureReport("Pass", FALSE, NoFailures)
           ELSE TestFailureReport("Fail", TRUE,
                    [tests |-> invalid_tests, blocks |-> invalid_blocks])

--------------------------------------------------------------------------
(* Examplar wheat report *)

\* `Wheat errored; ${kind}`
WheatErroredMsg(kind) ==
    [kind |-> "Wheat errored; ", name |-> 0, lines |-> 0, test_lines |-> 0, err |-> kind]

\* `Block "${name}" at lines ${lines} raised an error.`
BlockErrorMsg(block) ==
    [kind |-> "Block raised an error.", name |-> block.name,
     lines |-> get_line_number(block.loc), test_lines |-> 0, err |-> ""]

\* `Test failed in block "${name}" at lines ${lines}; Test location: ${test lines}`
TestFailedMsg(tb) ==
    [kind |-> "Test failed in block", name |-> tb.block.name,
     lines |-> get_line_number(tb.block.loc),
     test_lines |-> get_line_number(tb.test.loc), err |-> ""]

WheatMessagesReport(valid, messages, threw) ==
    [valid |-> valid, messages |-> messages, threw |-> threw]

\* A mutant: an errored wheat is reported as valid.
generate_wheat_messages_err_valid(wheat_result) ==
    LET test_report == get_invalid_tests_and_blocks(wheat_result)
    IN IF test_report.success = "Pass"
       THEN WheatMessagesReport(TRUE, <<>>, FALSE)
       ELSE IF test_report.success = "Err"
       THEN WheatMessagesReport(TRUE, <<WheatErroredMsg(wheat_result.result.Err)>>, FALSE)
       ELSE
           LET invalids == test_report.failures
               messages == Map(invalids.blocks, BlockErrorMsg)
                               \o Map(invalids.tests, TestFailedMsg)
           IN IF Len(messages) = 0
              THEN WheatMessagesReport(FALSE, <<>>, TRUE)
              ELSE WheatMessagesReport(TRUE, messages, FALSE)

generate_wheat_messages(wheat_result) ==
    LET test_report == get_invalid_tests_and_blocks(wheat_result)
    IN IF test_report.success = "Pass"
       THEN WheatMessagesReport(TRUE, <<>>, FALSE)
       ELSE IF test_report.success = "Err"
       THEN WheatMessagesReport(FALSE, <<WheatErroredMsg(wheat_result.result.Err)>>, FALSE)
       ELSE
           LET invalids == test_report.failures
               messages == Map(invalids.blocks, BlockErrorMsg)
                               \o Map(invalids.tests, TestFailedMsg)
           IN IF Len(messages) = 0
              THEN WheatMessagesReport(FALSE, <<>>, TRUE)   \* throw "... no reason given."
              ELSE WheatMessagesReport(TRUE, messages, FALSE)

\* The loop of generate_examplar_wheat_report over wheat_results.
FullWheatReport(wheats) ==
    LET full[i \in 0..Len(wheats)] ==
            IF i = 0 THEN WheatMessagesReport(TRUE, <<>>, FALSE)
            ELSE LET wheat_report == generate_wheat_messages(wheats[i])
                 IN IF full[i - 1].threw \/ wheat_report.threw
                    THEN WheatMessagesReport(full[i - 1].valid, full[i - 1].messages, TRUE)
                    ELSE IF ~wheat_report.valid
                    THEN WheatMessagesReport(FALSE,
                             full[i - 1].messages \o wheat_report.messages, FALSE)
                    ELSE full[i - 1]
    IN full[Len(wheats)]

generate_examplar_wheat_report(wheats) ==
    LET full_wheat_report == FullWheatReport(wheats)
    IN IF full_wheat_report.threw
       THEN [threw |-> TRUE]
       ELSE IF full_wheat_report.valid
       THEN [threw |-> FALSE,
             name |-> "VALID",
             output |-> [text |-> "These tests are valid and consistent with the assignment handout.",
                         messages |-> <<>>],
             visibility |-> "visible", section |-> "Wheat", type |-> "Examplar"]
       ELSE [threw |-> FALSE,
             name |-> "INVALID",
             output |-> [text |-> "Your test suite failed at least one of our wheats.",
                         messages |-> RemoveDuplicates(full_wheat_report.messages)],
             visibility |-> "visible", section |-> "Wheat", type |-> "Examplar"]

--------------------------------------------------------------------------
(* Detailed wheat report *)

\* One line of a detailed wheat report's output.
OutputLine(kind, name, loc, err) == [kind |-> kind, name |-> name, loc |-> loc, err |-> err]

\* output += `Wheat failed test in block "${name}" at location ${loc}\n` over invalids.tests
FailedTestLines(tests) ==
    Map(tests, LAMBDA t : OutputLine("Wheat failed test in block", t.block.name, t.test.loc, ""))

\* output = `Wheat caused error in block "${name}"\n` over invalids.blocks
CausedErrorLines(output, blocks) ==
    LET out[i \in 0..Len(blocks)] ==
            IF i = 0 THEN output
            ELSE <<OutputLine("Wheat caused error in block", blocks[i].name, NoLoc, "")>>
    IN out[Len(blocks)]

DetailedWheat(wheat_result, output, score, threw) ==
    [threw |-> threw,
     name |-> [prefix |-> "Wheat: ", file |-> get_code_file_name(wheat_result)],
     score |-> score, max_score |-> 1, output |-> output,
     visibility |-> "after_published", section |-> "Wheat", type |-> "Detailed"]

generate_detailed_wheat_report(wheat_result) ==
    LET test_report == get_invalid_tests_and_blocks(wheat_result)
    IN IF test_report.success = "Pass"
       THEN DetailedWheat(wheat_result, <<OutputLine("Passed wheat!", 0, NoLoc, "")>>, 1, FALSE)
       ELSE IF test_report.success = "Err"
       THEN DetailedWheat(wheat_result,
                <<OutputLine("Wheat errored; ", 0, NoLoc, wheat_result.result.Err)>>, 0, FALSE)
       ELSE
           LET invalids == test_report.failures
               output == CausedErrorLines(FailedTestLines(invalids.tests), invalids.blocks)
           IN DetailedWheat(wheat_result, output, 0, output = <<>>)

--------------------------------------------------------------------------
(* Detailed chaff report *)

\* Array.prototype.includes
Includes(seq, v) == \E i \in 1..Len(seq) : seq[i] = v

\* The loop of generate_detailed_chaff_report over wheat_results.  Reading
\* invalids.tests when test_report.failures is undefined throws a TypeError.
AllInvalids(wheats) ==
    LET all[i \in 0..Len(wheats)] ==
            IF i = 0 THEN [threw |-> FALSE, tests |-> <<>>, blocks |-> <<>>]
            ELSE LET test_report == get_invalid_tests_and_blocks(wheats[i])
                     invalids == test_report.failures
                 IN IF all[i - 1].threw \/ test_report.success = "Pass"
                    THEN all[i - 1]
                    ELSE IF ~test_report.has_failures
                    THEN [threw |-> TRUE, tests |-> all[i - 1].tests,
                          blocks |-> all[i - 1].blocks]
                    ELSE [threw |-> FALSE,
                          tests |-> all[i - 1].tests
                                        \o Map(invalids.tests, LAMBDA t : t.test),
                          blocks |-> all[i - 1].blocks \o invalids.blocks]
    IN all[Len(wheats)]

\* The outer function: [threw, all_invalid_locs]
generate_detailed_chaff_report(wheats) ==
    LET all == AllInvalids(wheats)
    IN [threw |-> all.threw,
        all_invalid_locs |-> Map(all.tests \o all.blocks, LAMBDA inv : inv.loc)]

ChaffOutput(kind, name, err) == [kind |-> kind, name |-> name, err |-> err]

\* A mutant: failed tests are not looked at.
get_score_and_output_blocks_only(invalid_locs, chaff) ==
    IF chaff.result.tag = "Err"
    THEN [output |-> ChaffOutput("Chaff caught; error: ", 0, chaff.result.Err), score |-> 1]
    ELSE
        LET blocks == chaff.result.Ok
            scan[i \in 1..(Len(blocks) + 1)] ==
                IF i = Len(blocks) + 1
                THEN [output |-> ChaffOutput("Chaff not caught.", 0, ""), score |-> 0]
                ELSE IF blocks[i].error /\ ~Includes(invalid_locs, blocks[i].loc)
                THEN [output |-> ChaffOutput("Chaff caught; error in block",
                                             blocks[i].name, ""),
                      score |-> 1]
                ELSE scan[i + 1]
        IN scan[1]

\* A mutant: a failure counts when its location is one of the wheats' failures.
get_score_and_output_masked_only(invalid_locs, chaff) ==
    IF chaff.result.tag = "Err"
    THEN [output |-> ChaffOutput("Chaff caught; error: ", 0, chaff.result.Err), score |-> 1]
    ELSE
        LET blocks == chaff.result.Ok
            scan[i \in 1..(Len(blocks) + 1)] ==
                IF i = Len(blocks) + 1
                THEN [output |-> ChaffOutput("Chaff not caught.", 0, ""), score |-> 0]
                ELSE IF blocks[i].error /\ Includes(invalid_locs, blocks[i].loc)
                THEN [output |-> ChaffOutput("Chaff caught; error in block",
                                             blocks[i].name, ""),
                      score |-> 1]
                ELSE IF \E j \in 1..Len(blocks[i].tests) :
                            /\ ~blocks[i].tests[j].passed
                            /\ Includes(invalid_locs, blocks[i].tests[j].loc)
                THEN [output |-> ChaffOutput("Chaff caught; test failed in block",
                                             blocks[i].name, ""),
                      score |-> 1]
                ELSE scan[i + 1]
        IN scan[1]

\* A mutant: the errored blocks of the whole chaff are looked at before any test.
get_score_and_output_errors_first(invalid_locs, chaff) ==
    IF chaff.result.tag = "Err"
    THEN [output |-> ChaffOutput("Chaff caught; error: ", 0, chaff.result.Err), score |-> 1]
    ELSE
        LET blocks == chaff.result.Ok
            tests[i \in 1..(Len(blocks) + 1)] ==
                IF i = Len(blocks) + 1
                THEN [output |-> ChaffOutput("Chaff not caught.", 0, ""), score |-> 0]
                ELSE IF \E j \in 1..Len(blocks[i].tests) :
                            /\ ~blocks[i].tests[j].passed
                            /\ ~Includes(invalid_locs, blocks[i].tests[j].loc)
                THEN [output |-> ChaffOutput("Chaff caught; test failed in block",
                                             blocks[i].name, ""),
                      score |-> 1]
                ELSE tests[i + 1]
            scan[i \in 1..(Len(blocks) + 1)] ==
                IF i = Len(blocks) + 1
                THEN tests[1]
                ELSE IF blocks[i].error /\ ~Includes(invalid_locs, blocks[i].loc)
                THEN [output |-> ChaffOutput("Chaff caught; error in block",
                                             blocks[i].name, ""),
                      score |-> 1]
                ELSE scan[i + 1]
        IN scan[1]

get_score_and_output(invalid_locs, chaff) ==
    IF chaff.result.tag = "Err"
    THEN [output |-> ChaffOutput("Chaff caught; error: ", 0, chaff.result.Err), score |-> 1]
    ELSE
        LET blocks == chaff.result.Ok
            scan[i \in 1..(Len(blocks) + 1)] ==
                IF i = Len(blocks) + 1
                THEN [output |-> ChaffOutput("Chaff not caught.", 0, ""), score |-> 0]
                ELSE IF blocks[i].error /\ ~Includes(invalid_locs, blocks[i].loc)
                THEN [output |-> ChaffOutput("Chaff caught; error in block",
                                             blocks[i].name, ""),
                      score |-> 1]
                ELSE IF \E j \in 1..Len(blocks[i].tests) :
                            /\ ~blocks[i].tests[j].passed
                            /\ ~Includes(invalid_locs, blocks[i].tests[j].loc)
                THEN [output |-> ChaffOutput("Chaff caught; test failed in block",
                                             blocks[i].name, ""),
                      score |-> 1]
                ELSE scan[i + 1]
        IN scan[1]

\* The closure returned by generate_detailed_chaff_report.
DetailedChaffReport(invalid_locs, chaff) ==
    LET result == get_score_and_output(invalid_locs, chaff)
    IN [name |-> [prefix |-> "Chaff: ", file |-> get_code_file_name(chaff)],
        output |-> result.output, score |-> result.score, max_score |-> 1,
        visibility |-> "after_published", section |-> "Chaff", type |-> "Detailed"]

--------------------------------------------------------------------------
(* Score report *)

\* A mutant: a name missing from point_values weighs 0.
generate_score_report_default_zero(rs, points, name, section) ==
    LET weight(report) ==
            IF report.name \in DOMAIN points THEN points[report.name] ELSE 0
        sum[i \in 0..Len(rs)] ==
            IF i = 0 THEN [total_score |-> 0, possible_score |-> 0]
            ELSE [total_score |-> sum[i - 1].total_score
                      + (IF rs[i].score = rs[i].max_score THEN weight(rs[i]) ELSE 0),
                  possible_score |-> sum[i - 1].possible_score + weight(rs[i])]
    IN [name |-> [prefix |-> "Score: ", label |-> name], output |-> "",
        score |-> sum[Len(rs)].total_score, max_score |-> sum[Len(rs)].possible_score,
        visibility |-> "hidden", section |-> section, type |-> "Score"]

\* A mutant: the points of every report are earned.
generate_score_report_all_earned(rs, points, name, section) ==
    LET weight(report) ==
            IF report.name \in DOMAIN points THEN points[report.name] ELSE 1
        sum[i \in 0..Len(rs)] ==
            IF i = 0 THEN [total_score |-> 0, possible_score |-> 0]
            ELSE [total_score |-> sum[i - 1].total_score + weight(rs[i]),
                  possible_score |-> sum[i - 1].possible_score + weight(rs[i])]
    IN [name |-> [prefix |-> "Score: ", label |-> name], output |-> "",
        score |-> sum[Len(rs)].total_score, max_score |-> sum[Len(rs)].possible_score,
        visibility |-> "hidden", section |-> section, type |-> "Score"]

generate_score_report(rs, points, name, section) ==
    LET weight(report) ==
            IF report.name \in DOMAIN points THEN points[report.name] ELSE 1
        sum[i \in 0..Len(rs)] ==
            IF i = 0 THEN [total_score |-> 0, possible_score |-> 0]
            ELSE [total_score |-> sum[i - 1].total_score
                      + (IF rs[i].score = rs[i].max_score THEN weight(rs[i]) ELSE 0),
                  possible_score |-> sum[i - 1].possible_score + weight(rs[i])]
    IN [name |-> [prefix |-> "Score: ", label |-> name], output |-> "",
        score |-> sum[Len(rs)].total_score, max_score |-> sum[Len(rs)].possible_score,
        visibility |-> "hidden", section |-> section, type |-> "Score"]

--------------------------------------------------------------------------
(* The report generation of main over the wheats and chaffs of a run *)

\* The variables a specification does not use keep these values.
NoEvaluation ==
    /\ checked_evaluation = None
    /\ before = <<>>
    /\ failure_report = None
    /\ functionality_reports = None

NoMain ==
    /\ results = <<>>
    /\ test_results = <<>>
    /\ examplar_config = None
    /\ point_data = None
    /\ examplar_reports = <<>>
    /\ detailed_test_reports = <<>>
    /\ score_reports = <<>>
    /\ gradescope_report = None

NoReports ==
    /\ pc = "examplar"
    /\ NoEvaluation
    /\ NoMain
    /\ examplar_wheat_report = None
    /\ detailed_wheat_reports = <<>>
    /\ all_invalid_locs = <<>>
    /\ detailed_chaff_reports = <<>>
    /\ reports = <<>>
    /\ point_values = <<>>
    /\ score_report = None

\* Runs that look at the wheat reports: full-size wheats, no chaff.
InitWheat ==
    /\ \E rs \in SeqsUpTo(Results(MaxBlocks, MaxTests), MaxWheats) :
           wheat_results = WheatEvaluations(rs)
    /\ chaff_results = <<>>
    /\ NoReports

\* Runs that look at the chaff reports: small wheats, full-size chaffs.
InitChaff ==
    /\ \E rs \in SeqsUpTo(Results(MaxMaskBlocks, MaxTests), MaxWheats) :
           wheat_results = WheatEvaluations(rs)
    /\ \E rs \in SeqsUpTo(Results(MaxBlocks, MaxTests), MaxChaffs) :
           chaff_results = ChaffEvaluations(rs)
    /\ NoReports

\* let wheat_report = generate_examplar_wheat_report(wheat_results)
GenerateExamplarWheatReport ==
    /\ pc = "examplar"
    /\ examplar_wheat_report' = generate_examplar_wheat_report(wheat_results)
    /\ pc' = IF examplar_wheat_report'.threw THEN "threw" ELSE "detailed_wheat"
    /\ UNCHANGED <<wheat_results, chaff_results, detailed_wheat_reports,
                   all_invalid_locs, detailed_chaff_reports, reports, point_values,
                   score_report>>
    /\ UNCHANGED <<evalVars, mainVars>>

\* wheat_results.map(generate_detailed_wheat_report)
GenerateDetailedWheatReports ==
    /\ pc = "detailed_wheat"
    /\ LET mapped == Map(wheat_results, generate_detailed_wheat_report)
       IN /\ detailed_wheat_reports' = mapped
          /\ pc' = IF \E i \in 1..Len(mapped) : mapped[i].threw
                   THEN "threw" ELSE "detailed_chaff"
    /\ UNCHANGED <<wheat_results, chaff_results, examplar_wheat_report,
                   all_invalid_locs, detailed_chaff_reports, reports, point_values,
                   score_report>>
    /\ UNCHANGED <<evalVars, mainVars>>

\* generate_detailed_chaff_report(wheat_results): builds the closure
GenerateDetailedChaffReport ==
    /\ pc = "detailed_chaff"
    /\ LET built == generate_detailed_chaff_report(wheat_results)
       IN /\ all_invalid_locs' = IF built.threw THEN <<>> ELSE built.all_invalid_locs
          /\ pc' = IF built.threw THEN "threw" ELSE "chaff_closure"
    /\ UNCHANGED <<wheat_results, chaff_results, examplar_wheat_report,
                   detailed_wheat_reports, detailed_chaff_reports, reports,
                   point_values, score_report>>
    /\ UNCHANGED <<evalVars, mainVars>>

\* chaff_results.map(<the closure>)
MapDetailedChaffReports ==
    /\ pc = "chaff_closure"
    /\ detailed_chaff_reports' =
           Map(chaff_results, LAMBDA chaff : DetailedChaffReport(all_invalid_locs, chaff))
    /\ pc' = "done"
    /\ UNCHANGED <<wheat_results, chaff_results, examplar_wheat_report,
                   detailed_wheat_reports, all_invalid_locs, reports, point_values,
                   score_report>>
    /\ UNCHANGED <<evalVars, mainVars>>

Next ==
    \/ GenerateExamplarWheatReport
    \/ GenerateDetailedWheatReports
    \/ GenerateDetailedChaffReport
    \/ MapDetailedChaffReports

SpecWheat == InitWheat /\ [][Next]_vars

SpecChaff == InitChaff /\ [][Next]_vars

--------------------------------------------------------------------------
(* One call of generate_score_report *)

ScoredReports == [name : 1..NumItems, score : 0..1, max_score : 0..1]

PointMaps == UNION {[names -> 0..MaxPoints] : names \in SUBSET (1..NumItems)}

InitScore ==
    /\ pc = "score"
    /\ reports \in SeqsUpTo(ScoredReports, MaxReports)
    /\ point_values \in PointMaps
    /\ score_report = None
    /\ wheat_results = <<>>
    /\ chaff_results = <<>>
    /\ examplar_wheat_report = None
    /\ detailed_wheat_reports = <<>>
    /\ all_invalid_locs = <<>>
    /\ detailed_chaff_reports = <<>>
    /\ NoEvaluation
    /\ NoMain

GenerateScoreReport ==
    /\ pc = "score"
    /\ score_report' = generate_score_report(reports, point_values, "items", "Wheat")
    /\ pc' = "done"
    /\ UNCHANGED <<wheat_results, chaff_results, examplar_wheat_report,
                   detailed_wheat_reports, all_invalid_locs, detailed_chaff_reports,
                   reports, point_values>>
    /\ UNCHANGED <<evalVars, mainVars>>

NextScore == GenerateScoreReport

SpecScore == InitScore /\ [][NextScore]_vars

--------------------------------------------------------------------------
(* Location normalizer *)

\* Locations as the autograder writes them: <dir>/.../<file>.arr:<lines>
RawLocs == [dirs : SeqsUpTo(1..NumDirs, MaxDepth), file : 1..NumFiles, lines : 1..NumLines]

RawTestBlocks ==
    [name : 1..NumNames, loc : RawLocs, error : BOOLEAN,
     tests : SeqsUpTo([loc : RawLocs, passed : BOOLEAN], MaxTests)]

RawResults ==
    {OkResult(bs) : bs \in SeqsUpTo(RawTestBlocks, MaxBlocks)}
        \cup {ErrResult(k) : k \in ErrKinds}

\* A mutant: only the first directory is cut off.
get_loc_name_first_dir(loc) ==
    IF Len(loc.dirs) = 0 THEN loc ELSE [loc EXCEPT !.dirs = Tail(loc.dirs)]

\* loc.split("/") and its last part
get_loc_name(loc) ==
    LET parts == Append(loc.dirs, [file |-> loc.file, lines |-> loc.lines])
        ret == parts[Len(parts)]
    IN [dirs |-> <<>>, file |-> ret.file, lines |-> ret.lines]

\* A mutant: the locations of the tests are left as they are.
normalize_code_names_blocks_only(e) ==
    IF e.result.tag = "Ok"
    THEN [e EXCEPT !.result.Ok =
              [i \in 1..Len(e.result.Ok) |->
                  [e.result.Ok[i] EXCEPT !.loc = get_loc_name(e.result.Ok[i].loc)]]]
    ELSE e

\* The evaluation as normalize_code_names leaves it (it works in place).
normalize_code_names(e) ==
    IF e.result.tag = "Ok"
    THEN [e EXCEPT !.result.Ok =
              [i \in 1..Len(e.result.Ok) |->
                  LET block == e.result.Ok[i]
                  IN [block EXCEPT
                         !.loc = get_loc_name(block.loc),
                         !.tests = [j \in 1..Len(block.tests) |->
                                       [block.tests[j] EXCEPT
                                           !.loc = get_loc_name(block.tests[j].loc)]]]]]
    ELSE e

--------------------------------------------------------------------------
(* Functionality report *)

FunctionalityOutput(kind, count, err) == [kind |-> kind, count |-> count, err |-> err]

BlockReport(block, output, score) ==
    [name |-> [prefix |-> "Test: ", name |-> block.name],
     output |-> output, score |-> score, max_score |-> 1,
     visibility |-> "after_published", section |-> "Functionality", type |-> "Detailed"]

ErrorReport(test_result) ==
    [name |-> [prefix |-> "", name |-> get_code_file_name(test_result)],
     output |-> FunctionalityOutput("Error: ", 0, test_result.result.Err),
     score |-> 0, max_score |-> 1,
     visibility |-> "visible", section |-> "Functionality", type |-> "Detailed"]

PassedTests(block) == Len(SelectSeq(block.tests, LAMBDA test : test.passed))

\* A mutant: an errored block is graded by its tests.
generate_functionality_report_error_ignored(test_result) ==
    IF test_result.result.tag = "Err"
    THEN <<ErrorReport(test_result)>>
    ELSE [i \in 1..Len(test_result.result.Ok) |->
             LET block == test_result.result.Ok[i]
                 total_tests == Len(block.tests)
                 passed_tests == PassedTests(block)
             IN IF passed_tests = total_tests
                THEN BlockReport(block,
                         FunctionalityOutput("Passed all tests in this block!",
                                             total_tests, ""), 1)
                ELSE BlockReport(block,
                         FunctionalityOutput("Missing tests in this block",
                                             total_tests - passed_tests, ""), 0)]

\* A mutant: an errored evaluation yields no report.
generate_functionality_report_err_empty(test_result) ==
    IF test_result.result.tag = "Err"
    THEN <<>>
    ELSE [i \in 1..Len(test_result.result.Ok) |->
             LET block == test_result.result.Ok[i]
                 total_tests == Len(block.tests)
                 passed_tests == PassedTests(block)
             IN IF block.error
                THEN BlockReport(block, FunctionalityOutput("Block errored.", 0, ""), 0)
                ELSE IF passed_tests = total_tests
                THEN BlockReport(block,
                         FunctionalityOutput("Passed all tests in this block!",
                                             total_tests, ""), 1)
                ELSE BlockReport(block,
                         FunctionalityOutput("Missing tests in this block",
                                             total_tests - passed_tests, ""), 0)]

generate_functionality_report(test_result) ==
    IF test_result.result.tag = "Err"
    THEN <<ErrorReport(test_result)>>
    ELSE [i \in 1..Len(test_result.result.Ok) |->
             LET block == test_result.result.Ok[i]
                 total_tests == Len(block.tests)
                 passed_tests == PassedTests(block)
             IN IF block.error
                THEN BlockReport(block, FunctionalityOutput("Block errored.", 0, ""), 0)
                ELSE IF passed_tests = total_tests
                THEN BlockReport(block,
                         FunctionalityOutput("Passed all tests in this block!",
                                             total_tests, ""), 1)
                ELSE BlockReport(block,
                         FunctionalityOutput("Missing tests in this block",
                                             total_tests - passed_tests, ""), 0)]

--------------------------------------------------------------------------
(* The calls on one evaluation: normalize_code_names (in place, possibly    *)
(* repeated), then get_invalid_tests_and_blocks on the evaluation as it     *)
(* then is.                                                                 *)

NoLists ==
    /\ before = <<>>
    /\ failure_report = None
    /\ functionality_reports = None
    /\ wheat_results = <<>>
    /\ chaff_results = <<>>
    /\ examplar_wheat_report = None
    /\ detailed_wheat_reports = <<>>
    /\ all_invalid_locs = <<>>
    /\ detailed_chaff_reports = <<>>
    /\ reports = <<>>
    /\ point_values = <<>>
    /\ score_report = None
    /\ NoMain

InitEval ==
    /\ pc = "normalize"
    /\ \E r \in RawResults : checked_evaluation = Evaluation({}, 1, r)
    /\ NoLists

NormalizeCodeNames ==
    /\ pc = "normalize"
    /\ Len(before) < MaxNormalizations
    /\ before' = Append(before, checked_evaluation)
    /\ checked_evaluation' = normalize_code_names(checked_evaluation)
    /\ UNCHANGED <<pc, failure_report, functionality_reports, reportVars, mainVars>>

GetInvalidTestsAndBlocks ==
    /\ pc \in {"normalize", "functionality"}
    /\ failure_report' = get_invalid_tests_and_blocks(checked_evaluation)
    /\ pc' = "detected"
    /\ UNCHANGED <<checked_evaluation, before, functionality_reports, reportVars,
                   mainVars>>

GenerateFunctionalityReport ==
    /\ pc = "functionality"
    /\ functionality_reports' = generate_functionality_report(checked_evaluation)
    /\ pc' = "done"
    /\ UNCHANGED <<checked_evaluation, before, failure_report, reportVars, mainVars>>

NextEval == NormalizeCodeNames \/ GetInvalidTestsAndBlocks

SpecEval == InitEval /\ [][NextEval]_vars

\* One call of generate_functionality_report or of
\* get_invalid_tests_and_blocks on an evaluation with up to MaxGradedTests
\* tests in a block
InitFunctionality ==
    /\ pc = "functionality"
    /\ \E r \in Results(MaxBlocks, MaxGradedTests) :
           checked_evaluation = Evaluation({}, 1, r)
    /\ NoLists

NextFunctionality == GenerateFunctionalityReport \/ GetInvalidTestsAndBlocks

SpecFunctionality == InitFunctionality /\ [][NextFunctionality]_vars

--------------------------------------------------------------------------
(* Partition of the input *)

Words == {"wheat", "chaff"}

\* A path segment: the words it contains
Segments == SUBSET Words

\* impl/<file>, wheat/<file>, chaff/<file>, ... and <file> alone, with a
\* test-suite identifier that may name a wheat
ShallowEvaluations ==
    [code : [dirs : SeqsUpTo(Segments, 1), file : {{}, {"wheat"}, {"chaff"}}],
     tests : {{}, {"wheat"}},
     result : {OkResult(<<>>)}]

\* Code files under up to MaxDepth directories
DeepEvaluations ==
    [code : [dirs : SeqsUpTo(Segments, MaxDepth), file : Segments],
     tests : Segments,
     result : {OkResult(<<>>)}]

\* path.basename(path.dirname(code)); "." for a code file without directory
get_code_dir_name(evaluation) ==
    LET dirs == evaluation.code.dirs
    IN IF Len(dirs) = 0 THEN {} ELSE dirs[Len(dirs)]

\* A mutant: every evaluation is put in front of its list.
partition_results_unshift(rs) ==
    LET Reverse(seq) == [i \in 1..Len(seq) |-> seq[Len(seq) + 1 - i]]
        is_wheat(r) == "wheat" \in get_code_dir_name(r)
        is_chaff(r) == ~is_wheat(r) /\ "chaff" \in get_code_dir_name(r)
    IN [test_results |-> Reverse(SelectSeq(rs, LAMBDA r : ~is_wheat(r) /\ ~is_chaff(r))),
        wheat_results |-> Reverse(SelectSeq(rs, is_wheat)),
        chaff_results |-> Reverse(SelectSeq(rs, is_chaff))]

\* A mutant: the words are looked for in the whole code path.
partition_results_whole_path(rs) ==
    LET path(r) == UNION (Range(r.code.dirs) \cup {r.code.file})
        is_wheat(r) == "wheat" \in path(r)
        is_chaff(r) == ~is_wheat(r) /\ "chaff" \in path(r)
    IN [test_results |-> SelectSeq(rs, LAMBDA r : ~is_wheat(r) /\ ~is_chaff(r)),
        wheat_results |-> SelectSeq(rs, is_wheat),
        chaff_results |-> SelectSeq(rs, is_chaff)]

partition_results(rs) ==
    LET is_wheat(r) == "wheat" \in get_code_dir_name(r)
        is_chaff(r) == ~is_wheat(r) /\ "chaff" \in get_code_dir_name(r)
    IN [test_results |-> SelectSeq(rs, LAMBDA r : ~is_wheat(r) /\ ~is_chaff(r)),
        wheat_results |-> SelectSeq(rs, is_wheat),
        chaff_results |-> SelectSeq(rs, is_chaff)]

InitPartition ==
    /\ pc = "partition"
    /\ results \in SeqsUpTo(ShallowEvaluations, MaxEvals)
                       \cup SeqsUpTo(DeepEvaluations, 1)
    /\ test_results = <<>>
    /\ wheat_results = <<>>
    /\ chaff_results = <<>>
    /\ NoEvaluation
    /\ examplar_wheat_report = None
    /\ detailed_wheat_reports = <<>>
    /\ all_invalid_locs = <<>>
    /\ detailed_chaff_reports = <<>>
    /\ reports = <<>>
    /\ point_values = <<>>
    /\ score_report = None
    /\ examplar_config = None
    /\ point_data = None
    /\ examplar_reports = <<>>
    /\ detailed_test_reports = <<>>
    /\ score_reports = <<>>
    /\ gradescope_report = None

PartitionResults ==
    /\ pc = "partition"
    /\ LET parts == partition_results(results)
       IN /\ test_results' = parts.test_results
          /\ wheat_results' = parts.wheat_results
          /\ chaff_results' = parts.chaff_results
    /\ pc' = "done"
    /\ UNCHANGED <<results, evalVars, examplar_wheat_report, detailed_wheat_reports,
                   all_invalid_locs, detailed_chaff_reports, reports, point_values,
                   score_report, examplar_config, point_data, examplar_reports,
                   detailed_test_reports, score_reports, gradescope_report>>

NextPartition == PartitionResults

SpecPartition == InitPartition /\ [][NextPartition]_vars

--------------------------------------------------------------------------
(* Examplar chaff report *)

ExamplarChaff(number, verdict, output, threw) ==
    [threw |-> threw,
     name |-> [prefix |-> "Chaff number ", number |-> number, verdict |-> verdict],
     output |-> output,
     visibility |-> "visible", section |-> "Chaff", type |-> "Examplar"]

ChaffExplanation(kind, err, messages) == [kind |-> kind, err |-> err, messages |-> messages]

\* A mutant: a chaff with failures is reported like one without.
generate_examplar_chaff_report_fail_not_caught(chaff_result, chaff_number) ==
    LET test_report == get_invalid_tests_and_blocks(chaff_result)
    IN IF test_report.success = "Err"
       THEN ExamplarChaff(chaff_number, "caught!",
                ChaffExplanation("Chaff errored: ", chaff_result.result.Err, <<>>), FALSE)
       ELSE ExamplarChaff(chaff_number, "not caught.", ChaffExplanation("", "", <<>>), FALSE)

generate_examplar_chaff_report(chaff_result, chaff_number) ==
    LET test_report == get_invalid_tests_and_blocks(chaff_result)
    IN IF test_report.success = "Pass"
       THEN ExamplarChaff(chaff_number, "not caught.", ChaffExplanation("", "", <<>>), FALSE)
       ELSE IF test_report.success = "Err"
       THEN ExamplarChaff(chaff_number, "caught!",
                ChaffExplanation("Chaff errored: ", chaff_result.result.Err, <<>>), FALSE)
       ELSE
           LET invalids == test_report.failures
               messages ==
                   Map(invalids.blocks,
                       LAMBDA block : [kind |-> "Block raised an error", name |-> block.name,
                                       lines |-> get_line_number(block.loc)])
                   \o Map(invalids.tests,
                          LAMBDA test : [kind |-> "Test block", name |-> test.block.name,
                                         lines |-> get_line_number(test.test.loc)])
           IN ExamplarChaff(chaff_number, "caught!",
                  ChaffExplanation("The following tests caught this chaff:", "", messages),
                  Len(messages) = 0)

--------------------------------------------------------------------------
(* Overall report *)

\* The report with its tests list in reverse order
generate_overall_report_reversed(all_reports) ==
    [visibility |-> "visible", stdout_visibility |-> "visible",
     tests |-> [i \in 1..Len(all_reports) |-> all_reports[Len(all_reports) + 1 - i]],
     score |-> 0, max_score |-> 0]

generate_overall_report(all_reports) ==
    [visibility |-> "visible", stdout_visibility |-> "visible",
     tests |-> all_reports, score |-> 0, max_score |-> 0]

--------------------------------------------------------------------------
(* main: from the evaluations, the config and the point values to the     *)
(* report that is written                                                  *)

\* One-block results of an evaluation of a run; the block errored or ran a test
RunResults(lines, passes) ==
    LET blocks == {b \in [name : 1..NumNames, loc : {[dirs |-> <<>>, file |-> 1, lines |-> 1]},
                          error : BOOLEAN,
                          tests : SeqsUpTo([loc : [dirs : {<<>>}, file : {1}, lines : lines],
                                            passed : passes], 1)] :
                       b.error <=> b.tests = <<>>}
    IN {OkResult(<<>>), ErrResult("Runtime")} \cup {OkResult(<<b>>) : b \in blocks}

\* The result as the run in directory `dir` reports it: <dir>/<file>.arr:<lines>
InDir(result, dir) ==
    IF result.tag = "Ok"
    THEN OkResult([i \in 1..Len(result.Ok) |->
             [result.Ok[i] EXCEPT
                 !.loc = [@ EXCEPT !.dirs = <<dir>>],
                 !.tests = [j \in 1..Len(@) |-> [@[j] EXCEPT !.loc = [@ EXCEPT !.dirs = <<dir>>]]]]])
    ELSE result

\* The input file: chaff/1.arr ..., wheat/1.arr ..., impl/1.arr ..., each
\* evaluation run in a directory of its own
RunInput(cs, ws, ts) ==
    [i \in 1..Len(cs) |-> Evaluation({"chaff"}, i, InDir(cs[i], i))]
        \o [i \in 1..Len(ws) |-> Evaluation({"wheat"}, i, InDir(ws[i], Len(cs) + i))]
        \o [i \in 1..Len(ts) |-> Evaluation({}, i, InDir(ts[i], Len(cs) + Len(ws) + i))]

\* string[] | null
NullList == [null |-> TRUE, list |-> <<>>]
List(l) == [null |-> FALSE, list |-> l]

\* ExamplarConfig | null
NullConfig == [null |-> TRUE, useWheats |-> FALSE, chaffs |-> NullList]
ExamplarConfig(useWheats, chaffs) == [null |-> FALSE, useWheats |-> useWheats, chaffs |-> chaffs]

ExamplarConfigs ==
    {NullConfig, ExamplarConfig(FALSE, NullList), ExamplarConfig(TRUE, NullList)}
        \cup {ExamplarConfig(TRUE, List(l)) : l \in SeqsUpTo(1..MaxRunChaffs, 1)}

\* The score file: empty, or points for "Test: 1", "Wheat: 1" and "Chaff: 2"
PointData ==
    {[functionality |-> [n \in {} |-> 0], testing |-> [n \in {} |-> 0]],
     [functionality |-> [n \in {[prefix |-> "Test: ", name |-> 1]} |-> MaxPoints],
      testing |-> [n \in {[prefix |-> "Wheat: ", file |-> 1],
                          [prefix |-> "Chaff: ", file |-> MaxRunChaffs]} |->
                      IF n.prefix = "Wheat: " THEN MaxPoints ELSE 0]]}

\* A mutant: the config's list is not looked at.
examplar_chaff_results_unfiltered(config, chaffs) ==
    chaffs

\* main: examplar_chaff_results
examplar_chaff_results(config, chaffs) ==
    IF config.chaffs.null
    THEN chaffs
    ELSE SelectSeq(chaffs,
             LAMBDA result : Includes(config.chaffs.list, get_code_file_name(result)))

InitMain ==
    /\ pc = "main"
    /\ \E cs \in SeqsUpTo(RunResults(1..NumLines, {FALSE}), MaxRunChaffs),
          ws \in SeqsUpTo(RunResults({1}, BOOLEAN), MaxWheats),
          ts \in SeqsUpTo(RunResults({1}, BOOLEAN), MaxTestSuites) :
           results = RunInput(cs, ws, ts)
    /\ examplar_config \in ExamplarConfigs
    /\ point_data \in PointData
    /\ test_results = <<>>
    /\ wheat_results = <<>>
    /\ chaff_results = <<>>
    /\ NoEvaluation
    /\ examplar_wheat_report = None
    /\ detailed_wheat_reports = <<>>
    /\ all_invalid_locs = <<>>
    /\ detailed_chaff_reports = <<>>
    /\ reports = <<>>
    /\ point_values = <<>>
    /\ score_report = None
    /\ examplar_reports = <<>>
    /\ detailed_test_reports = <<>>
    /\ score_reports = <<>>
    /\ gradescope_report = None

\* let [test_results, wheat_results, chaff_results] = partition_results(results)
MainPartitionResults ==
    /\ pc = "main"
    /\ LET parts == partition_results(results)
       IN /\ test_results' = parts.test_results
          /\ wheat_results' = parts.wheat_results
          /\ chaff_results' = parts.chaff_results
    /\ pc' = "main_normalize"
    /\ UNCHANGED <<results, evalVars, examplar_wheat_report, detailed_wheat_reports,
                   all_invalid_locs, detailed_chaff_reports, reports, point_values,
                   score_report, examplar_config, point_data, examplar_reports,
                   detailed_test_reports, score_reports, gradescope_report>>

\* results.forEach(normalize_code_names) on the three lists; the evaluations
\* of `results` are the same objects
MainNormalizeCodeNames ==
    /\ pc = "main_normalize"
    /\ results' = Map(results, normalize_code_names)
    /\ test_results' = Map(test_results, normalize_code_names)
    /\ wheat_results' = Map(wheat_results, normalize_code_names)
    /\ chaff_results' = Map(chaff_results, normalize_code_names)
    /\ pc' = "main_examplar"
    /\ UNCHANGED <<evalVars, examplar_wheat_report, detailed_wheat_reports,
                   all_invalid_locs, detailed_chaff_reports, reports, point_values,
                   score_report, examplar_config, point_data, examplar_reports,
                   detailed_test_reports, score_reports, gradescope_report>>

\* The examplar reports: the wheat report and, when it is "VALID", one
\* report for each chaff the config names
MainExamplarReports ==
    /\ pc = "main_examplar"
    /\ IF ~examplar_config.null /\ examplar_config.useWheats
       THEN LET wheat_report == generate_examplar_wheat_report(wheat_results)
                chaffs == examplar_chaff_results(examplar_config, chaff_results)
                chaff_reports ==
                    [i \in 1..Len(chaffs) |->
                        generate_examplar_chaff_report(chaffs[i], i - 1)]
            IN /\ examplar_wheat_report' = wheat_report
               /\ IF wheat_report.threw
                  THEN examplar_reports' = <<>> /\ pc' = "threw"
                  ELSE IF wheat_report.name = "VALID"
                  THEN /\ examplar_reports' = <<wheat_report>> \o chaff_reports
                       /\ pc' = IF \E i \in 1..Len(chaff_reports) : chaff_reports[i].threw
                                THEN "threw" ELSE "main_detailed"
                  ELSE examplar_reports' = <<wheat_report>> /\ pc' = "main_detailed"
       ELSE /\ examplar_reports' = <<>>
            /\ pc' = "main_detailed"
            /\ UNCHANGED examplar_wheat_report
    /\ UNCHANGED <<results, test_results, wheat_results, chaff_results, evalVars,
                   detailed_wheat_reports, all_invalid_locs, detailed_chaff_reports,
                   reports, point_values, score_report, examplar_config, point_data,
                   detailed_test_reports, score_reports, gradescope_report>>

\* The detailed reports of the functionality evaluations, the wheats and the
\* chaffs; an exception in one of the generators ends main
MainDetailedReports ==
    /\ pc = "main_detailed"
    /\ LET wheat_reports == Map(wheat_results, generate_detailed_wheat_report)
           built == generate_detailed_chaff_report(wheat_results)
           threw == \/ \E i \in 1..Len(wheat_reports) : wheat_reports[i].threw
                    \/ built.threw
       IN /\ detailed_test_reports' = Map(test_results, generate_functionality_report)
          /\ detailed_wheat_reports' = IF threw THEN <<>> ELSE wheat_reports
          /\ all_invalid_locs' = IF threw THEN <<>> ELSE built.all_invalid_locs
          /\ detailed_chaff_reports' =
                 IF threw THEN <<>>
                 ELSE Map(chaff_results,
                          LAMBDA chaff : DetailedChaffReport(built.all_invalid_locs, chaff))
          /\ pc' = IF threw THEN "threw" ELSE "main_score"
    /\ UNCHANGED <<results, test_results, wheat_results, chaff_results, evalVars,
                   examplar_wheat_report, reports, point_values, score_report,
                   examplar_config, point_data, examplar_reports, score_reports,
                   gradescope_report>>

\* The score reports: one for each functionality evaluation, one for the
\* wheats, one for the chaffs
MainScoreReports ==
    /\ pc = "main_score"
    /\ LET functionality_scores ==
               Map(detailed_test_reports,
                   LAMBDA report : generate_score_report(report, point_data.functionality,
                                       "functionality", "Functionality"))
           wheat_score == generate_score_report(detailed_wheat_reports, point_data.testing,
                              "wheats", "Wheat")
           chaff_score == generate_score_report(detailed_chaff_reports, point_data.testing,
                              "chaffs", "Chaff")
       IN score_reports' = functionality_scores \o <<wheat_score>> \o <<chaff_score>>
    /\ pc' = "main_report"
    /\ UNCHANGED <<results, test_results, wheat_results, chaff_results, evalVars,
                   examplar_wheat_report, detailed_wheat_reports, all_invalid_locs,
                   detailed_chaff_reports, reports, point_values, score_report,
                   examplar_config, point_data, examplar_reports, detailed_test_reports,
                   gradescope_report>>

\* generate_overall_report(all_reports) and write_report_to_file
MainOverallReport ==
    /\ pc = "main_report"
    /\ LET detailed_reports == Concat(detailed_test_reports) \o detailed_wheat_reports
                                   \o detailed_chaff_reports
           all_reports == examplar_reports \o detailed_reports \o score_reports
       IN gradescope_report' = generate_overall_report(all_reports)
    /\ pc' = "written"
    /\ UNCHANGED <<results, test_results, wheat_results, chaff_results, evalVars,
                   examplar_wheat_report, detailed_wheat_reports, all_invalid_locs,
                   detailed_chaff_reports, reports, point_values, score_report,
                   examplar_config, point_data, examplar_reports, detailed_test_reports,
                   score_reports>>

NextMain ==
    \/ MainPartitionResults
    \/ MainNormalizeCodeNames
    \/ MainExamplarReports
    \/ MainDetailedReports
    \/ MainScoreReports
    \/ MainOverallReport

SpecMain == InitMain /\ [][NextMain]_vars

\* Runs of main without a config file over up to MaxEvals - 1 functionality
\* evaluations
InitMainSuites ==
    /\ pc = "main"
    /\ \E cs \in SeqsUpTo(RunResults(1..NumLines, {FALSE}), MaxChaffs),
          ws \in SeqsUpTo(RunResults({1}, BOOLEAN), MaxWheats),
          ts \in SeqsUpTo(RunResults({1}, BOOLEAN), MaxEvals - 1) :
           results = RunInput(cs, ws, ts)
    /\ examplar_config = NullConfig
    /\ point_data \in PointData
    /\ test_results = <<>>
    /\ wheat_results = <<>>
    /\ chaff_results = <<>>
    /\ NoEvaluation
    /\ examplar_wheat_report = None
    /\ detailed_wheat_reports = <<>>
    /\ all_invalid_locs = <<>>
    /\ detailed_chaff_reports = <<>>
    /\ reports = <<>>
    /\ point_values = <<>>
    /\ score_report = None
    /\ examplar_reports = <<>>
    /\ detailed_test_reports = <<>>
    /\ score_reports = <<>>
    /\ gradescope_report = None

SpecMainSuites == InitMainSuites /\ [][NextMain]_vars

--------------------------------------------------------------------------
(* The report generators that may throw "... no reason given", each called  *)
(* on one evaluation                                                       *)

NamedBlocks ==
    [name : 1..NumBlockNames, loc : Locs, error : BOOLEAN, tests : SeqsUpTo(Tests, MaxTests)]

NamedResults ==
    {OkResult(bs) : bs \in SeqsUpTo(NamedBlocks, MaxBlocks)}
        \cup {ErrResult(k) : k \in ErrKinds}

InitReports ==
    /\ pc = "generate"
    /\ \E r \in NamedResults : checked_evaluation = Evaluation({}, 1, r)
    /\ NoLists

\* generate_examplar_wheat_report([evaluation]), which calls generate_wheat_messages
GenerateWheatMessages ==
    /\ pc = "generate"
    /\ examplar_wheat_report' = generate_examplar_wheat_report(<<checked_evaluation>>)
    /\ pc' = "wheat_messages"
    /\ UNCHANGED <<evalVars, mainVars, wheat_results, chaff_results,
                   detailed_wheat_reports, all_invalid_locs, detailed_chaff_reports,
                   reports, point_values, score_report>>

\* generate_examplar_chaff_report(evaluation, 0)
GenerateExamplarChaffReport ==
    /\ pc = "generate"
    /\ examplar_reports' = <<generate_examplar_chaff_report(checked_evaluation, 0)>>
    /\ pc' = "examplar_chaff"
    /\ UNCHANGED <<evalVars, reportVars, results, test_results, examplar_config,
                   point_data, detailed_test_reports, score_reports, gradescope_report>>

\* generate_detailed_wheat_report(evaluation)
GenerateDetailedWheatReport ==
    /\ pc = "generate"
    /\ detailed_wheat_reports' = <<generate_detailed_wheat_report(checked_evaluation)>>
    /\ pc' = "wheat_detail"
    /\ UNCHANGED <<evalVars, mainVars, wheat_results, chaff_results,
                   examplar_wheat_report, all_invalid_locs, detailed_chaff_reports,
                   reports, point_values, score_report>>

NextReports ==
    \/ GenerateWheatMessages
    \/ GenerateExamplarChaffReport
    \/ GenerateDetailedWheatReport

SpecReports == InitReports /\ [][NextReports]_vars

--------------------------------------------------------------------------
(* generate_detailed_chaff_report called with two lists of wheats on the   *)
(* same chaffs: wheat_results is the first list and results the second,    *)
(* detailed_chaff_reports and reports are the reports of each              *)

OkResults(maxBlocks, maxTests) == {r \in Results(maxBlocks, maxTests) : r.tag = "Ok"}

InitTwoWheatLists ==
    /\ pc = "two_lists"
    /\ \E rs \in SeqsUpTo(OkResults(MaxMaskBlocks, MaxTests), MaxMaskWheats) :
           wheat_results = WheatEvaluations(rs)
    /\ \E rs \in SeqsUpTo(OkResults(MaxMaskBlocks, MaxTests), MaxMaskWheats) :
           results = WheatEvaluations(rs)
    /\ \E rs \in SeqsUpTo(OkResults(MaxBlocks, MaxTests), MaxChaffs) :
           chaff_results = ChaffEvaluations(rs)
    /\ NoEvaluation
    /\ test_results = <<>>
    /\ examplar_config = None
    /\ point_data = None
    /\ examplar_reports = <<>>
    /\ detailed_test_reports = <<>>
    /\ score_reports = <<>>
    /\ gradescope_report = None
    /\ examplar_wheat_report = None
    /\ detailed_wheat_reports = <<>>
    /\ all_invalid_locs = <<>>
    /\ detailed_chaff_reports = <<>>
    /\ reports = <<>>
    /\ point_values = <<>>
    /\ score_report = None

\* chaff_results.map(generate_detailed_chaff_report(wheat_results))
ChaffReportsOfFirstList ==
    /\ pc = "two_lists"
    /\ LET built == generate_detailed_chaff_report(wheat_results)
       IN /\ all_invalid_locs' = IF built.threw THEN <<>> ELSE built.all_invalid_locs
          /\ detailed_chaff_reports' =
                 IF built.threw THEN <<>>
                 ELSE Map(chaff_results,
                          LAMBDA chaff : DetailedChaffReport(built.all_invalid_locs, chaff))
          /\ pc' = IF built.threw THEN "threw" ELSE "first_list"
    /\ UNCHANGED <<wheat_results, chaff_results, examplar_wheat_report,
                   detailed_wheat_reports, reports, point_values, score_report>>
    /\ UNCHANGED <<evalVars, mainVars>>

\* chaff_results.map(generate_detailed_chaff_report(results))
ChaffReportsOfSecondList ==
    /\ pc = "first_list"
    /\ LET built == generate_detailed_chaff_report(results)
       IN /\ all_invalid_locs' = IF built.threw THEN <<>> ELSE built.all_invalid_locs
          /\ reports' =
                 IF built.threw THEN <<>>
                 ELSE Map(chaff_results,
                          LAMBDA chaff : DetailedChaffReport(built.all_invalid_locs, chaff))
          /\ pc' = IF built.threw THEN "threw" ELSE "second_list"
    /\ UNCHANGED <<wheat_results, chaff_results, examplar_wheat_report,
                   detailed_wheat_reports, detailed_chaff_reports, point_values,
                   score_report>>
    /\ UNCHANGED <<evalVars, mainVars>>

NextTwoWheatLists ==
    \/ ChaffReportsOfFirstList
    \/ ChaffReportsOfSecondList

SpecTwoWheatLists == InitTwoWheatLists /\ [][NextTwoWheatLists]_vars

--------------------------------------------------------------------------
(* Vocabulary of the properties, stated on the input evaluations *)


IsErr(e) == e.result.tag = "Err"

IsOk(e) == e.result.tag = "Ok"

ErroredBlocks(e) == {b \in Range(e.result.Ok) : b.error}

\* <<test, owning block>> of every failed test
FailedTests(e) ==
    UNION {{<<b.tests[j], b>> : j \in {k \in 1..Len(b.tests) : ~b.tests[k].passed}} :
           b \in Range(e.result.Ok)}

IsPass(e) == IsOk(e) /\ ErroredBlocks(e) = {} /\ FailedTests(e) = {}

IsFail(e) == IsOk(e) /\ ~IsPass(e)

\* Union over the Ok wheats of the locations of errored blocks and failed tests
KnownBadLocs(wheats) ==
    UNION {{b.loc : b \in ErroredBlocks(w)} \cup {tb[1].loc : tb \in FailedTests(w)} :
           w \in {x \in Range(wheats) : IsOk(x)}}

HasUnmaskedFailure(chaff, bad) ==
    \/ \E b \in ErroredBlocks(chaff) : b.loc \notin bad
    \/ \E tb \in FailedTests(chaff) : tb[1].loc \notin bad

HasFailure(chaff) == HasUnmaskedFailure(chaff, {})

ExamplarReported == pc \notin {"examplar", "score"} /\ ~examplar_wheat_report.threw

WheatsReported == pc \in {"detailed_chaff", "chaff_closure", "done", "threw"}

ClosureBuilt == pc \in {"chaff_closure", "done"}

Terminated == pc \in {"done", "threw"}

AllWheatsPass == \A i \in 1..Len(wheat_results) : IsPass(wheat_results[i])

--------------------------------------------------------------------------
(* Properties *)

\* C1: the examplar wheat report is named "VALID" if and only if every wheat
\* is Pass, and "INVALID" as soon as one wheat is Fail or Err.
C1_ValidIffEveryWheatPasses ==
    ExamplarReported =>
        /\ examplar_wheat_report.name = "VALID" <=> AllWheatsPass
        /\ ~AllWheatsPass => examplar_wheat_report.name = "INVALID"

\* C2: for every list of wheats and every Ok chaff, the run ends with a
\* detailed chaff report of max_score 1 whose score is 1 exactly when the chaff
\* has an errored block or failed test at a location outside the known-bad set.
C2_OkChaffCaughtIffUnmaskedFailure ==
    Terminated =>
        \A i \in 1..Len(chaff_results) :
            IsOk(chaff_results[i]) =>
                /\ pc = "done"
                /\ detailed_chaff_reports[i].max_score = 1
                /\ detailed_chaff_reports[i].score =
                       IF HasUnmaskedFailure(chaff_results[i], KnownBadLocs(wheat_results))
                       THEN 1 ELSE 0

\* C3: building the known-bad set completes for every list of wheats, and
\* the set is the union of the failing locations of the Ok wheats.
C3_KnownBadSetBuilt ==
    (ClosureBuilt \/ Terminated) =>
        /\ pc # "threw"
        /\ Range(all_invalid_locs) = KnownBadLocs(wheat_results)

\* C4: a chaff whose result is Err always gets a detailed report with
\* score 1, whatever the wheats are.
C4_ErrChaffCaught ==
    Terminated =>
        \A i \in 1..Len(chaff_results) :
            IsErr(chaff_results[i]) =>
                /\ pc = "done"
                /\ detailed_chaff_reports[i].score = 1

\* C5: with no wheat, or only Pass wheats, the verdict is "VALID", the
\* known-bad set is empty and every Ok chaff with a failure scores 1.
C5_AllPassNothingMasked ==
    AllWheatsPass =>
        /\ ExamplarReported => examplar_wheat_report.name = "VALID"
        /\ (ClosureBuilt \/ Terminated) => pc # "threw" /\ all_invalid_locs = <<>>
        /\ Terminated =>
               \A i \in 1..Len(chaff_results) :
                   (IsOk(chaff_results[i]) /\ HasFailure(chaff_results[i]))
                       => detailed_chaff_reports[i].score = 1

C5_Witness ==
    /\ pc = "done"
    /\ Len(wheat_results) = MaxWheats
    /\ AllWheatsPass
    /\ Len(wheat_results[1].result.Ok) > 0
    /\ Len(chaff_results) > 0
    /\ IsOk(chaff_results[1])
    /\ ErroredBlocks(chaff_results[1]) = {}
    /\ FailedTests(chaff_results[1]) # {}
    /\ detailed_chaff_reports[1].score = 1
    /\ examplar_wheat_report.name = "VALID"

\* C6: the explanation of the aggregate wheat report holds, for each Fail
\* wheat, the message of each errored block and of each failed test.
C6_FailMessagesInExplanation ==
    ExamplarReported =>
        \A i \in 1..Len(wheat_results) :
            IsFail(wheat_results[i]) =>
                /\ \A b \in ErroredBlocks(wheat_results[i]) :
                       BlockErrorMsg(b) \in Range(examplar_wheat_report.output.messages)
                /\ \A tb \in FailedTests(wheat_results[i]) :
                       TestFailedMsg([test |-> tb[1], block |-> tb[2]])
                           \in Range(examplar_wheat_report.output.messages)

\* C7: a wheat with result Err(k) makes the aggregate report "INVALID" with
\* "Wheat errored; k" in the explanation, contributes no block or test
\* message, and gets detailed score 0 with output "Wheat errored; k".
C7_ErrWheat ==
    \A i \in 1..Len(wheat_results) :
        IsErr(wheat_results[i]) =>
            LET k == wheat_results[i].result.Err
            IN /\ ExamplarReported =>
                      /\ examplar_wheat_report.name = "INVALID"
                      /\ WheatErroredMsg(k) \in Range(examplar_wheat_report.output.messages)
                      /\ \A m \in Range(examplar_wheat_report.output.messages) :
                             m.kind # "Wheat errored; " =>
                                 \E j \in 1..Len(wheat_results) :
                                     /\ IsFail(wheat_results[j])
                                     /\ \/ \E b \in ErroredBlocks(wheat_results[j]) :
                                               m = BlockErrorMsg(b)
                                        \/ \E tb \in FailedTests(wheat_results[j]) :
                                               m = TestFailedMsg([test |-> tb[1],
                                                                  block |-> tb[2]])
               /\ WheatsReported =>
                      /\ detailed_wheat_reports[i].score = 0
                      /\ detailed_wheat_reports[i].output =
                             <<OutputLine("Wheat errored; ", 0, NoLoc, k)>>

C7_Witness ==
    /\ WheatsReported
    /\ Len(wheat_results) = MaxWheats
    /\ IsErr(wheat_results[MaxWheats])
    /\ IsFail(wheat_results[1])
    /\ examplar_wheat_report.name = "INVALID"
    /\ detailed_wheat_reports[MaxWheats].score = 0

\* C8: each wheat's detailed report has max_score 1, and score 1 if the
\* wheat is Pass and 0 if it is Fail or Err, whatever the other wheats are.
C8_DetailedWheatScore ==
    WheatsReported =>
        /\ Len(detailed_wheat_reports) = Len(wheat_results)
        /\ \A i \in 1..Len(wheat_results) :
               /\ detailed_wheat_reports[i].max_score = 1
               /\ detailed_wheat_reports[i].score =
                      IF IsPass(wheat_results[i]) THEN 1 ELSE 0

C8_Witness ==
    /\ WheatsReported
    /\ Len(wheat_results) = MaxWheats
    /\ IsPass(wheat_results[1])
    /\ Len(wheat_results[1].result.Ok) > 0
    /\ IsFail(wheat_results[MaxWheats])
    /\ FailedTests(wheat_results[MaxWheats]) = {}
    /\ detailed_wheat_reports[1].score = 1
    /\ detailed_wheat_reports[MaxWheats].score = 0

\* The messages the failing (Fail or Err) wheats produce, in input order
FailingWheatMessages(wheats) ==
    Concat([i \in 1..Len(wheats) |->
                IF IsPass(wheats[i]) THEN <<>>
                ELSE generate_wheat_messages(wheats[i]).messages])

\* C9: the deduplicated message list of the "INVALID" explanation holds
\* every distinct message of the failing wheats exactly once, in the order
\* of first occurrence.
C9_DeduplicatedInFirstOccurrenceOrder ==
    (ExamplarReported /\ examplar_wheat_report.name = "INVALID") =>
        LET shown == examplar_wheat_report.output.messages
            all == FailingWheatMessages(wheat_results)
        IN /\ Range(shown) = Range(all)
           /\ \A a, b \in 1..Len(shown) : a # b => shown[a] # shown[b]
           /\ \A a, b \in 1..Len(shown) :
                  a < b => IndexOf(all, shown[a]) < IndexOf(all, shown[b])

\* weight(n): point_values[n] if n is a key, 1 otherwise
Weight(n) == IF n \in DOMAIN point_values THEN point_values[n] ELSE 1

SumWeights(indices) ==
    LET sum[S \in SUBSET indices] ==
            IF S = {} THEN 0
            ELSE LET i == CHOOSE x \in S : TRUE
                 IN Weight(reports[i].name) + sum[S \ {i}]
    IN sum[indices]

\* C10: max_score is the sum of the weights of all reports, score the sum
\* of the weights of the reports with score = max_score.
C10_ScoreReportSums ==
    pc = "done" =>
        /\ score_report.max_score = SumWeights(1..Len(reports))
        /\ score_report.score =
               SumWeights({i \in 1..Len(reports) : reports[i].score = reports[i].max_score})

\* reports a (1/1) and b (0/1) with points {a: 2, b: 3} give 2 out of 5
C10_Witness ==
    /\ pc = "done"
    /\ Len(reports) = 2
    /\ reports[1] = [name |-> 1, score |-> 1, max_score |-> 1]
    /\ reports[2] = [name |-> 2, score |-> 0, max_score |-> 1]
    /\ DOMAIN point_values = {1, 2}
    /\ point_values[1] = 2
    /\ point_values[2] = 3
    /\ score_report.score = 2
    /\ score_report.max_score = 5

--------------------------------------------------------------------------
(* Properties of the calls on one evaluation *)

FailedCount(block) == Cardinality({j \in 1..Len(block.tests) : ~block.tests[j].passed})

\* C11: a block's report has max_score 1; score 0 and "Block errored." if the
\* block errored; otherwise score 1 exactly when every test passed, and else
\* score 0 with "Missing <total - passed> tests in this block".
C11_BlockReportScores ==
    (pc = "done" /\ IsOk(checked_evaluation)) =>
        \A i \in 1..Len(checked_evaluation.result.Ok) :
            LET block == checked_evaluation.result.Ok[i]
                report == functionality_reports[i]
            IN /\ report.max_score = 1
               /\ block.error =>
                      /\ report.score = 0
                      /\ report.output = FunctionalityOutput("Block errored.", 0, "")
               /\ (~block.error /\ FailedCount(block) = 0) => report.score = 1
               /\ (~block.error /\ FailedCount(block) > 0) =>
                      /\ report.score = 0
                      /\ report.output =
                             FunctionalityOutput("Missing tests in this block",
                                                 FailedCount(block), "")

\* a block with 3 tests, 2 passed, not errored: 0/1, "Missing 1 tests in this block"
C11_Witness ==
    /\ pc = "done"
    /\ IsOk(checked_evaluation)
    /\ Len(checked_evaluation.result.Ok) = MaxBlocks
    /\ ~checked_evaluation.result.Ok[1].error
    /\ Len(checked_evaluation.result.Ok[1].tests) = MaxGradedTests
    /\ FailedCount(checked_evaluation.result.Ok[1]) = 1
    /\ functionality_reports[1].score = 0
    /\ functionality_reports[1].output.count = 1
    /\ checked_evaluation.result.Ok[MaxBlocks].error
    /\ FailedCount(checked_evaluation.result.Ok[MaxBlocks]) = 0
    /\ functionality_reports[MaxBlocks].score = 0

\* C12: an Ok result with N blocks yields exactly N reports in block order,
\* an Err result exactly one report with score 0 and max_score 1.
C12_OneReportPerBlock ==
    pc = "done" =>
        IF IsOk(checked_evaluation)
        THEN /\ Len(functionality_reports) = Len(checked_evaluation.result.Ok)
             /\ \A i \in 1..Len(checked_evaluation.result.Ok) :
                    LET block == checked_evaluation.result.Ok[i]
                        report == functionality_reports[i]
                    IN /\ report.name = [prefix |-> "Test: ", name |-> block.name]
                       /\ report.score = 1 <=> (~block.error /\ FailedCount(block) = 0)
                       /\ report.output.kind = "Passed all tests in this block!"
                              => report.output.count = Len(block.tests)
        ELSE /\ Len(functionality_reports) = 1
             /\ functionality_reports[1].score = 0
             /\ functionality_reports[1].max_score = 1

C12_Witness ==
    /\ pc = "done"
    /\ IsOk(checked_evaluation)
    /\ Len(checked_evaluation.result.Ok) = MaxBlocks
    /\ Len(functionality_reports) = MaxBlocks
    /\ Len(checked_evaluation.result.Ok[1].tests) = 0
    /\ Len(checked_evaluation.result.Ok[MaxBlocks].tests) = MaxGradedTests
    /\ functionality_reports[1].score = 1
    /\ functionality_reports[MaxBlocks].score = 1
    /\ functionality_reports[1].output # functionality_reports[MaxBlocks].output

\* The substring after the final "/" of a location (all of it without a "/")
AfterFinalSlash(loc) == [dirs |-> <<>>, file |-> loc.file, lines |-> loc.lines]

\* C15: normalize_code_names is idempotent.
C15_NormalizeIdempotent ==
    Len(before) = MaxNormalizations
        => checked_evaluation = before[MaxNormalizations]

C15_Witness ==
    /\ Len(before) = MaxNormalizations
    /\ before[1] # before[MaxNormalizations]
    /\ \E i \in 1..Len(before[1].result.Ok) :
           Len(before[1].result.Ok[i].loc.dirs) = MaxDepth

\* C16: normalize_code_names replaces every block.loc and test.loc of an Ok
\* evaluation by the part after its final "/" and changes nothing else; an
\* Err evaluation stays as it is.
C16_NormalizeFrame ==
    Len(before) > 0 =>
        LET old == before[Len(before)]
            new == checked_evaluation
        IN /\ new.code = old.code
           /\ new.tests = old.tests
           /\ new.result.tag = old.result.tag
           /\ new.result.Err = old.result.Err
           /\ Len(new.result.Ok) = Len(old.result.Ok)
           /\ \A i \in 1..Len(old.result.Ok) :
                  LET ob == old.result.Ok[i]
                      nb == new.result.Ok[i]
                  IN /\ nb.name = ob.name
                     /\ nb.error = ob.error
                     /\ nb.loc = AfterFinalSlash(ob.loc)
                     /\ Len(nb.tests) = Len(ob.tests)
                     /\ \A j \in 1..Len(ob.tests) :
                            /\ nb.tests[j].passed = ob.tests[j].passed
                            /\ nb.tests[j].loc = AfterFinalSlash(ob.tests[j].loc)

C16_Witness ==
    /\ Len(before) = 1
    /\ IsOk(before[1])
    /\ Len(before[1].result.Ok) = MaxBlocks
    /\ Len(before[1].result.Ok[1].loc.dirs) = 0
    /\ Len(before[1].result.Ok[1].tests) > 0
    /\ Len(before[1].result.Ok[1].tests[1].loc.dirs) = MaxDepth
    /\ Len(checked_evaluation.result.Ok[1].tests[1].loc.dirs) = 0

\* The k-th smallest element of a set of numbers
KthIndex(S, k) == CHOOSE x \in S : Cardinality({y \in S : y < x}) = k - 1

\* <<block index, test index>> of every failed test
FailedTestIndices(e) ==
    UNION {{<<i, j>> : j \in {k \in 1..Len(e.result.Ok[i].tests) :
                                  ~e.result.Ok[i].tests[k].passed}} :
           i \in 1..Len(e.result.Ok)}

PairBefore(p, q) == p[1] < q[1] \/ (p[1] = q[1] /\ p[2] < q[2])

KthPair(S, k) == CHOOSE p \in S : Cardinality({q \in S : PairBefore(q, p)}) = k - 1

\* C17: the report is Err exactly for an Err result; for an Ok result it is
\* Pass exactly when no block errored and no test failed, and else Fail with
\* the errored blocks in order and the failed tests in order, each with its
\* block.
C17_FailureReport ==
    pc = "detected" =>
        LET e == checked_evaluation
            blocks == e.result.Ok
            errored == {i \in 1..Len(blocks) : blocks[i].error}
            failed == FailedTestIndices(e)
        IN /\ failure_report.success = "Err" <=> IsErr(e)
           /\ IsOk(e) =>
                  /\ failure_report.success = "Pass" <=> (errored = {} /\ failed = {})
                  /\ failure_report.success # "Pass" =>
                         /\ failure_report.success = "Fail"
                         /\ failure_report.has_failures
                         /\ Len(failure_report.failures.blocks) = Cardinality(errored)
                         /\ \A k \in 1..Cardinality(errored) :
                                failure_report.failures.blocks[k]
                                    = blocks[KthIndex(errored, k)]
                         /\ Len(failure_report.failures.tests) = Cardinality(failed)
                         /\ \A k \in 1..Cardinality(failed) :
                                LET p == KthPair(failed, k)
                                IN failure_report.failures.tests[k]
                                       = [test |-> blocks[p[1]].tests[p[2]],
                                          block |-> blocks[p[1]]]

C17_Witness ==
    /\ pc = "detected"
    /\ IsOk(checked_evaluation)
    /\ Len(checked_evaluation.result.Ok) = MaxBlocks
    /\ \A i \in 1..MaxBlocks :
           /\ checked_evaluation.result.Ok[i].error
           /\ Len(checked_evaluation.result.Ok[i].tests) = MaxGradedTests
           /\ FailedCount(checked_evaluation.result.Ok[i]) = 2
           /\ checked_evaluation.result.Ok[i].tests[2].passed
           /\ checked_evaluation.result.Ok[i].tests[1]
                  # checked_evaluation.result.Ok[i].tests[MaxGradedTests]
    /\ checked_evaluation.result.Ok[1] # checked_evaluation.result.Ok[MaxBlocks]
    /\ failure_report.success = "Fail"
    /\ Len(failure_report.failures.blocks) = MaxBlocks
    /\ Len(failure_report.failures.tests) = 2 * MaxBlocks

\* C18: a Fail report holds only errored blocks and only failed tests, and
\* at least one of them; a Pass or Err report carries no failures.
C18_FailureReportInvariant ==
    pc = "detected" =>
        IF failure_report.success = "Fail"
        THEN /\ failure_report.has_failures
             /\ \A k \in 1..Len(failure_report.failures.blocks) :
                    failure_report.failures.blocks[k].error
             /\ \A k \in 1..Len(failure_report.failures.tests) :
                    ~failure_report.failures.tests[k].test.passed
             /\ Len(failure_report.failures.blocks) + Len(failure_report.failures.tests) > 0
        ELSE /\ failure_report.success \in {"Pass", "Err"}
             /\ ~failure_report.has_failures

C18_Witness ==
    /\ pc = "detected"
    /\ failure_report.success = "Fail"
    /\ Len(failure_report.failures.blocks) = 0
    /\ Len(failure_report.failures.tests) = MaxGradedTests
    /\ Len(checked_evaluation.result.Ok) = MaxBlocks

--------------------------------------------------------------------------
(* Properties of the partition *)

\* The elements of seq at the indices in S, in order
Restrict(seq, S) == [k \in 1..Cardinality(S) |-> seq[KthIndex(S, k)]]

\* C13: partition_results puts every input evaluation in exactly one of the
\* three lists, adds and loses none, and keeps the input order within a list.
C13_ThreeWayPartition ==
    pc = "done" =>
        /\ \E part \in [1..Len(results) -> {"test", "wheat", "chaff"}] :
               /\ test_results = Restrict(results, {i \in 1..Len(results) : part[i] = "test"})
               /\ wheat_results = Restrict(results, {i \in 1..Len(results) : part[i] = "wheat"})
               /\ chaff_results = Restrict(results, {i \in 1..Len(results) : part[i] = "chaff"})
        /\ Range(test_results) \cap Range(wheat_results) = {}
        /\ Range(test_results) \cap Range(chaff_results) = {}
        /\ Range(wheat_results) \cap Range(chaff_results) = {}

\* three evaluations, two of them wheats told apart by their file names
C13_Witness ==
    /\ pc = "done"
    /\ Len(results) = MaxEvals
    /\ Len(wheat_results) = 2
    /\ wheat_results[1] # wheat_results[2]
    /\ Len(chaff_results) = 1
    /\ results[1] = wheat_results[1]
    /\ results[2] = chaff_results[1]

\* The name of the directory that holds the code file ("." when there is none)
ContainingDir(e) ==
    IF e.code.dirs = <<>> THEN {} ELSE e.code.dirs[Len(e.code.dirs)]

\* C14: an evaluation is a wheat if the name of the directory of its code
\* file contains "wheat", a chaff if it contains "chaff" and not "wheat", and
\* functionality otherwise, whatever its file name and test-suite identifier.
C14_ClassifiedByDirName ==
    pc = "done" =>
        \A i \in 1..Len(results) :
            LET e == results[i]
                dir == ContainingDir(e)
            IN /\ e \in Range(wheat_results) <=> "wheat" \in dir
               /\ e \in Range(chaff_results) <=> ("chaff" \in dir /\ "wheat" \notin dir)
               /\ e \in Range(test_results) <=> dir \cap Words = {}

C14_Witness ==
    /\ pc = "done"
    /\ Len(results) = MaxEvals
    /\ \E e \in Range(wheat_results) :
           ContainingDir(e) = Words /\ e.code.file = {"chaff"}
    /\ \E e \in Range(chaff_results) :
           e.code.file = {"wheat"} /\ e.tests = {"wheat"}
    /\ \E e \in Range(test_results) :
           e.code.dirs = <<>> /\ e.code.file = {"wheat"}

\* a code file below a directory inside wheat/ is no wheat
C14_DeepWitness ==
    /\ pc = "done"
    /\ Len(results) = 1
    /\ Len(results[1].code.dirs) = MaxDepth
    /\ results[1].code.dirs[1] = {"wheat"}
    /\ results[1].code.file = {"chaff"}
    /\ Len(test_results) = 1

--------------------------------------------------------------------------
(* Properties of the written report *)

Written == pc = "written"

\* The reports of one section and type in the written report, in order
ReportsOf(section, type) ==
    SelectSeq(gradescope_report.tests, LAMBDA r : r.section = section /\ r.type = type)

\* The chaffs whose code file name is in the config's list
ListedChaffs ==
    {i \in 1..Len(chaff_results) :
        chaff_results[i].code.file \in Range(examplar_config.chaffs.list)}

\* The points of a chaff's detailed report in the score file, 1 by default
ChaffPoints(i) ==
    LET name == [prefix |-> "Chaff: ", file |-> chaff_results[i].code.file]
    IN IF name \in DOMAIN point_data.testing THEN point_data.testing[name] ELSE 1

SumChaffPoints ==
    LET sum[i \in 0..Len(chaff_results)] ==
            IF i = 0 THEN 0 ELSE sum[i - 1] + ChaffPoints(i)
    IN sum[Len(chaff_results)]

\* C19: with a non-null chaffs list, examplar chaff reports exist only for
\* the chaffs whose file name is listed; under every config the written
\* report holds a detailed chaff report for every chaff and a chaff score
\* report that counts every chaff.
C19_ConfigFiltersExamplarOnly ==
    Written =>
        /\ (~examplar_config.null /\ ~examplar_config.chaffs.null) =>
               /\ Len(ReportsOf("Chaff", "Examplar")) \in {0, Cardinality(ListedChaffs)}
               /\ \A k \in 1..Len(ReportsOf("Chaff", "Examplar")) :
                      ReportsOf("Chaff", "Examplar")[k].name.verdict = "caught!"
                          <=> ~IsPass(chaff_results[KthIndex(ListedChaffs, k)])
        /\ Len(ReportsOf("Chaff", "Detailed")) = Len(chaff_results)
        /\ \A i \in 1..Len(chaff_results) :
               ReportsOf("Chaff", "Detailed")[i].name
                   = [prefix |-> "Chaff: ", file |-> chaff_results[i].code.file]
        /\ Len(ReportsOf("Chaff", "Score")) = 1
        /\ ReportsOf("Chaff", "Score")[1].max_score = SumChaffPoints

\* two chaffs, only the second one listed: one examplar chaff report, two
\* detailed ones
C19_Witness ==
    /\ Written
    /\ ~examplar_config.null
    /\ examplar_config.chaffs = List(<<MaxRunChaffs>>)
    /\ Len(chaff_results) = MaxRunChaffs
    /\ IsPass(chaff_results[1])
    /\ ~IsPass(chaff_results[MaxRunChaffs])
    /\ Len(ReportsOf("Chaff", "Examplar")) = 1
    /\ ReportsOf("Chaff", "Examplar")[1].name.verdict = "caught!"
    /\ Len(ReportsOf("Chaff", "Detailed")) = MaxRunChaffs
    /\ DOMAIN point_data.testing # {}

\* One Pass wheat and one chaff with a failed test, which no wheat failure masks
OnePassWheatOneFailingChaff ==
    /\ Len(wheat_results) = 1
    /\ IsPass(wheat_results[1])
    /\ Len(chaff_results) = 1
    /\ IsOk(chaff_results[1])
    /\ ErroredBlocks(chaff_results[1]) = {}
    /\ Cardinality(FailedTests(chaff_results[1])) = 1
    /\ HasUnmaskedFailure(chaff_results[1], KnownBadLocs(wheat_results))

\* tests[k] is the examplar report "VALID" and tests[k + 1] an examplar chaff
\* report "Chaff number <i> caught!"
ValidThenCaughtAt(k) ==
    LET tests == gradescope_report.tests
    IN /\ k + 1 <= Len(tests)
       /\ tests[k].type = "Examplar"
       /\ tests[k].section = "Wheat"
       /\ tests[k].name = "VALID"
       /\ tests[k + 1].type = "Examplar"
       /\ tests[k + 1].section = "Chaff"
       /\ tests[k + 1].name.verdict = "caught!"

ExamplarEnabledFor(chaff) ==
    /\ ~examplar_config.null
    /\ examplar_config.useWheats
    /\ \/ examplar_config.chaffs.null
       \/ chaff.code.file \in Range(examplar_config.chaffs.list)

--------------------------------------------------------------------------
(* Properties of the score reports of the written report *)

\* The points of a report name in a map of the score file, 1 by default
Points(map, name) == IF name \in DOMAIN map THEN map[name] ELSE 1

\* The names and full marks of the block reports of a functionality evaluation
GradedItems(e) ==
    IF IsErr(e)
    THEN <<[name |-> [prefix |-> "", name |-> e.code.file], full |-> FALSE]>>
    ELSE [i \in 1..Len(e.result.Ok) |->
             [name |-> [prefix |-> "Test: ", name |-> e.result.Ok[i].name],
              full |-> ~e.result.Ok[i].error /\ FailedCount(e.result.Ok[i]) = 0]]

\* The wheats and the chaffs as items of the testing score
WheatItems ==
    [i \in 1..Len(wheat_results) |->
        [name |-> [prefix |-> "Wheat: ", file |-> wheat_results[i].code.file],
         full |-> IsPass(wheat_results[i])]]

ChaffItems ==
    [i \in 1..Len(chaff_results) |->
        [name |-> [prefix |-> "Chaff: ", file |-> chaff_results[i].code.file],
         full |-> \/ IsErr(chaff_results[i])
                  \/ HasUnmaskedFailure(chaff_results[i], KnownBadLocs(wheat_results))]]

\* The points that can be earned and the points earned over a list of items
Possible(items, map) ==
    LET sum[i \in 0..Len(items)] ==
            IF i = 0 THEN 0 ELSE sum[i - 1] + Points(map, items[i].name)
    IN sum[Len(items)]

Earned(items, map) ==
    LET sum[i \in 0..Len(items)] ==
            IF i = 0 THEN 0
            ELSE sum[i - 1] + (IF items[i].full THEN Points(map, items[i].name) ELSE 0)
    IN sum[Len(items)]

Sums(report, items, map) ==
    /\ report.max_score = Possible(items, map)
    /\ report.score = Earned(items, map)

\* C21: the written report holds one functionality score report for each
\* functionality evaluation, summing that evaluation's block reports with the
\* functionality points, and exactly one wheat and one chaff score report,
\* summing all wheats and all chaffs with the testing points.
C21_ScoreReports ==
    Written =>
        /\ Len(ReportsOf("Functionality", "Score")) = Len(test_results)
        /\ \A k \in 1..Len(test_results) :
               Sums(ReportsOf("Functionality", "Score")[k],
                    GradedItems(test_results[k]), point_data.functionality)
        /\ Len(ReportsOf("Wheat", "Score")) = 1
        /\ Sums(ReportsOf("Wheat", "Score")[1], WheatItems, point_data.testing)
        /\ Len(ReportsOf("Chaff", "Score")) = 1
        /\ Sums(ReportsOf("Chaff", "Score")[1], ChaffItems, point_data.testing)

\* two functionality evaluations with different sums, no wheat and no chaff
C21_Witness ==
    /\ Written
    /\ Len(test_results) = MaxEvals - 1
    /\ IsErr(test_results[1])
    /\ IsPass(test_results[2])
    /\ Len(test_results[2].result.Ok) > 0
    /\ DOMAIN point_data.functionality # {}
    /\ ReportsOf("Functionality", "Score")[1].max_score = 1
    /\ ReportsOf("Functionality", "Score")[2].score = MaxPoints
    /\ wheat_results = <<>>
    /\ chaff_results = <<>>
    /\ ReportsOf("Wheat", "Score")[1].max_score = 0
    /\ ReportsOf("Chaff", "Score")[1].max_score = 0

--------------------------------------------------------------------------
(* Properties of the reports' visibility *)

\* C22: in every written report a Score report is "hidden", a Detailed
\* report "after_published" and an Examplar report "visible".
C22_VisibilityByType ==
    Written =>
        \A i \in 1..Len(gradescope_report.tests) :
            LET report == gradescope_report.tests[i]
            IN /\ report.type = "Score" => report.visibility = "hidden"
               /\ report.type = "Detailed" => report.visibility = "after_published"
               /\ report.type = "Examplar" => report.visibility = "visible"

--------------------------------------------------------------------------
(* Properties of the order of normalization and classification in main *)

\* Every block and test location of the evaluation is the part after its last "/"
Normalized(e) ==
    \A i \in 1..Len(e.result.Ok) :
        /\ e.result.Ok[i].loc.dirs = <<>>
        /\ \A j \in 1..Len(e.result.Ok[i].tests) : e.result.Ok[i].tests[j].loc.dirs = <<>>

Classified == Range(test_results) \cup Range(wheat_results) \cup Range(chaff_results)

\* A report generator reads the evaluations, or has read them
GeneratorsReached ==
    pc \in {"main_examplar", "main_detailed", "main_score", "main_report", "written", "threw"}

\* C23 as stated: an evaluation that partition_results has classified was
\* normalized before, so no classified evaluation is un-normalized.
C23_NormalizedBeforeClassified ==
    \A e \in Classified : Normalized(e)

\* C23 amended: main classifies first and normalizes next; every evaluation
\* is normalized before a report generator reads it, and the classification,
\* which reads the code path only, is that of the normalized evaluations.
C23_NormalizedBeforeReportsRead ==
    GeneratorsReached =>
        /\ \A e \in Classified : Normalized(e)
        /\ \A e \in Range(results) : Normalized(e)
        /\ partition_results(results)
               = [test_results |-> test_results, wheat_results |-> wheat_results,
                  chaff_results |-> chaff_results]

C23_Witness ==
    /\ pc = "main_examplar"
    /\ Len(wheat_results) = MaxWheats
    /\ Len(chaff_results) = MaxRunChaffs
    /\ Len(test_results) = MaxTestSuites
    /\ \A e \in Classified :
           /\ IsOk(e)
           /\ Len(e.result.Ok) > 0
           /\ Len(e.result.Ok[1].tests) > 0
           /\ e.result.Ok[1].tests[1].loc.dirs = <<>>

--------------------------------------------------------------------------
(* Properties of what a detailed chaff report cites *)

\* The blocks of an Ok chaff with an unmasked error, and with an unmasked failed test
UnmaskedErrors(chaff) ==
    {i \in 1..Len(chaff.result.Ok) :
        /\ chaff.result.Ok[i].error
        /\ chaff.result.Ok[i].loc \notin Range(all_invalid_locs)}

UnmaskedFailedTests(chaff) ==
    {i \in 1..Len(chaff.result.Ok) :
        \E j \in 1..Len(chaff.result.Ok[i].tests) :
            /\ ~chaff.result.Ok[i].tests[j].passed
            /\ chaff.result.Ok[i].tests[j].loc \notin Range(all_invalid_locs)}

First(S) == CHOOSE i \in S : \A j \in S : i <= j

Cites(report, kind, block) == report.output = ChaffOutput(kind, block.name, "")

\* C24 as stated: a caught Ok chaff's report cites the first unmasked errored
\* block whenever the chaff has one, and a failed test only when the chaff
\* has no unmasked errored block at all.
C24_ErroredBlockCitedFirst ==
    pc = "done" =>
        \A c \in 1..Len(chaff_results) :
            LET chaff == chaff_results[c]
                report == detailed_chaff_reports[c]
            IN (IsOk(chaff) /\ report.score = 1) =>
                   IF UnmaskedErrors(chaff) # {}
                   THEN Cites(report, "Chaff caught; error in block",
                              chaff.result.Ok[First(UnmaskedErrors(chaff))])
                   ELSE Cites(report, "Chaff caught; test failed in block",
                              chaff.result.Ok[First(UnmaskedFailedTests(chaff))])

\* C24 amended: the report cites the first block, in block order, that has
\* an unmasked failure of either kind: its error if that block errored at an
\* unmasked location, and else its unmasked failed test.
C24_FirstFailingBlockCited ==
    pc = "done" =>
        \A c \in 1..Len(chaff_results) :
            LET chaff == chaff_results[c]
                report == detailed_chaff_reports[c]
                failing == UnmaskedErrors(chaff) \cup UnmaskedFailedTests(chaff)
            IN (IsOk(chaff) /\ report.score = 1) =>
                   /\ failing # {}
                   /\ IF First(failing) \in UnmaskedErrors(chaff)
                      THEN Cites(report, "Chaff caught; error in block",
                                 chaff.result.Ok[First(failing)])
                      ELSE Cites(report, "Chaff caught; test failed in block",
                                 chaff.result.Ok[First(failing)])

\* a failed test in the first block, an error in the second, both unmasked,
\* below a wheat failure that masks nothing of it
C24_Witness ==
    /\ pc = "done"
    /\ Len(chaff_results) > 0
    /\ IsOk(chaff_results[1])
    /\ UnmaskedErrors(chaff_results[1]) = {MaxBlocks}
    /\ 1 \in UnmaskedFailedTests(chaff_results[1])
    /\ all_invalid_locs # <<>>
    /\ detailed_chaff_reports[1].output.kind = "Chaff caught; test failed in block"

--------------------------------------------------------------------------
(* Properties of the report generators called on one evaluation *)

ErroredIndices(e) == {i \in 1..Len(e.result.Ok) : e.result.Ok[i].error}

\* C25: the detailed report of a Fail wheat names the first errored block when
\* a block errored, and else the block of the first failed test.
C25_FirstErroredBlockNamed ==
    (pc = "wheat_detail" /\ IsFail(checked_evaluation)) =>
        LET e == checked_evaluation
            output == detailed_wheat_reports[1].output
        IN IF ErroredIndices(e) # {}
           THEN \E k \in 1..Len(output) :
                    /\ output[k].kind = "Wheat caused error in block"
                    /\ output[k].name = e.result.Ok[First(ErroredIndices(e))].name
           ELSE LET p == KthPair(FailedTestIndices(e), 1)
                IN /\ Len(output) > 0
                   /\ output[1] = OutputLine("Wheat failed test in block",
                                             e.result.Ok[p[1]].name,
                                             e.result.Ok[p[1]].tests[p[2]].loc, "")

\* C27: generate_wheat_messages, generate_examplar_chaff_report and
\* generate_detailed_wheat_report never throw "... no reason given": a Fail
\* evaluation always yields a message.
C27_NoReasonGivenUnreachable ==
    /\ pc = "wheat_messages" => ~examplar_wheat_report.threw
    /\ pc = "examplar_chaff" =>
           /\ ~examplar_reports[1].threw
           /\ IsFail(checked_evaluation) => examplar_reports[1].output.messages # <<>>
    /\ pc = "wheat_detail" =>
           /\ ~detailed_wheat_reports[1].threw
           /\ detailed_wheat_reports[1].output # <<>>

C27_Witness ==
    /\ pc = "examplar_chaff"
    /\ IsFail(checked_evaluation)
    /\ Len(checked_evaluation.result.Ok) = MaxBlocks
    /\ ErroredIndices(checked_evaluation) = {MaxBlocks}
    /\ FailedTestIndices(checked_evaluation) = {<<1, 1>>}
    /\ Len(examplar_reports[1].output.messages) = 2

--------------------------------------------------------------------------
(* Properties relating the examplar chaff reports to the wheats and to the *)
(* detailed chaff reports of the written report                            *)

ExamplarSection ==
    SelectSeq(gradescope_report.tests, LAMBDA r : r.type = "Examplar")

\* C26: the written report holds examplar chaff reports only if the config is
\* present with useWheats true and every wheat is Pass; with a Fail or Err
\* wheat the examplar reports are the wheat report alone.
C26_ChaffReportsOnlyIfWheatsPass ==
    Written =>
        /\ Len(ReportsOf("Chaff", "Examplar")) > 0 =>
               /\ ~examplar_config.null
               /\ examplar_config.useWheats
               /\ \A i \in 1..Len(wheat_results) : IsPass(wheat_results[i])
        /\ (\E i \in 1..Len(wheat_results) : ~IsPass(wheat_results[i])) =>
               \A k \in 1..Len(ExamplarSection) : ExamplarSection[k].section = "Wheat"

\* The chaffs that main hands to generate_examplar_chaff_report, as indices
ExamplarChaffs ==
    IF examplar_config.chaffs.null THEN 1..Len(chaff_results) ELSE ListedChaffs

\* C28: the examplar report and the detailed report of one chaff agree: the
\* examplar name says "caught!" if and only if the detailed score is 1.
C28_ExamplarAgreesWithDetailed ==
    Written =>
        \A k \in 1..Len(ReportsOf("Chaff", "Examplar")) :
            ReportsOf("Chaff", "Examplar")[k].name.verdict = "caught!"
                <=> ReportsOf("Chaff", "Detailed")[KthIndex(ExamplarChaffs, k)].score = 1

--------------------------------------------------------------------------
(* Properties of the order of the written report *)

TypeRank(report) ==
    CASE report.type = "Examplar" -> 1
      [] report.type = "Detailed" -> 2
      [] report.type = "Score" -> 3

SectionRank(report) ==
    CASE report.section = "Functionality" -> 1
      [] report.section = "Wheat" -> 2
      [] report.section = "Chaff" -> 3

\* C30: the written tests list holds the examplar reports (the wheat verdict,
\* then the chaffs in input order), then the detailed reports (functionality
\* blocks of each evaluation in input order, wheats, chaffs in input order),
\* then the score reports (functionality, wheats, chaffs); the overall score
\* and max_score are 0.
C30_ReportOrder ==
    Written =>
        LET tests == gradescope_report.tests
        IN /\ \A i, j \in 1..Len(tests) :
                  i < j =>
                      \/ TypeRank(tests[i]) < TypeRank(tests[j])
                      \/ /\ TypeRank(tests[i]) = TypeRank(tests[j])
                         /\ tests[i].type = "Examplar" => tests[j].section = "Chaff"
                         /\ tests[i].type # "Examplar"
                                => SectionRank(tests[i]) <= SectionRank(tests[j])
           /\ Len(ReportsOf("Wheat", "Examplar")) <= 1
           /\ \A k \in 1..Len(ReportsOf("Chaff", "Examplar")) :
                  /\ ReportsOf("Chaff", "Examplar")[k].name.number = k - 1
                  /\ ReportsOf("Chaff", "Examplar")[k].name.verdict = "caught!"
                         <=> ~IsPass(chaff_results[KthIndex(ExamplarChaffs, k)])
           /\ ReportsOf("Functionality", "Detailed")
                  = Concat(Map(test_results, generate_functionality_report))
           /\ Len(ReportsOf("Wheat", "Detailed")) = Len(wheat_results)
           /\ \A i \in 1..Len(wheat_results) :
                  ReportsOf("Wheat", "Detailed")[i].name
                      = [prefix |-> "Wheat: ", file |-> wheat_results[i].code.file]
           /\ Len(ReportsOf("Chaff", "Detailed")) = Len(chaff_results)
           /\ \A i \in 1..Len(chaff_results) :
                  ReportsOf("Chaff", "Detailed")[i].name
                      = [prefix |-> "Chaff: ", file |-> chaff_results[i].code.file]
           /\ Len(ReportsOf("Functionality", "Score")) = Len(test_results)
           /\ Len(ReportsOf("Wheat", "Score")) = 1
           /\ Len(ReportsOf("Chaff", "Score")) = 1
           /\ gradescope_report.score = 0
           /\ gradescope_report.max_score = 0

\* every kind of report is written, two chaffs with different verdicts
C30_Witness ==
    /\ Written
    /\ Len(ReportsOf("Wheat", "Examplar")) = 1
    /\ Len(ReportsOf("Chaff", "Examplar")) = MaxRunChaffs
    /\ ReportsOf("Chaff", "Examplar")[1].name.verdict = "not caught."
    /\ ReportsOf("Chaff", "Examplar")[MaxRunChaffs].name.verdict = "caught!"
    /\ Len(ReportsOf("Functionality", "Detailed")) = 1
    /\ Len(ReportsOf("Wheat", "Detailed")) = MaxWheats
    /\ Len(ReportsOf("Chaff", "Detailed")) = MaxRunChaffs
    /\ Len(gradescope_report.tests) = 1 + MaxRunChaffs + 1 + MaxWheats + MaxRunChaffs + 3

--------------------------------------------------------------------------
(* Properties of the detailed chaff score under two lists of wheats *)

\* C29: for two lists of Ok wheats where the known-bad set of the first is a
\* subset of the known-bad set of the second, an Ok chaff that scores 0 with
\* the first list scores 0 with the second.
C29_ScoreMonotoneInWheatFailures ==
    (pc = "second_list" /\ KnownBadLocs(wheat_results) \subseteq KnownBadLocs(results)) =>
        \A i \in 1..Len(chaff_results) :
            detailed_chaff_reports[i].score = 0 => reports[i].score = 0

\* the second list masks more, and a chaff caught with the first list is not
\* caught with the second
C29_Witness ==
    /\ pc = "second_list"
    /\ KnownBadLocs(wheat_results) # {}
    /\ KnownBadLocs(wheat_results) \subseteq KnownBadLocs(results)
    /\ KnownBadLocs(wheat_results) # KnownBadLocs(results)
    /\ Len(chaff_results) = MaxChaffs
    /\ Len(chaff_results[1].result.Ok) = MaxBlocks
    /\ detailed_chaff_reports[1].score = 1
    /\ reports[1].score = 0

====
